---- MODULE Spec2Model ----
(***************************************************************************)
(* A model of the mousa-api music-streaming backend: the document store    *)
(* (users, artists, subscription tiers, user subscriptions, exclusive      *)
(* content, playlists, playlist folders) and the route handlers that read  *)
(* and write it.  Each handler is one action; `resp` holds the response    *)
(* the last handler sent.                                                  *)
(***************************************************************************)
EXTENDS Integers, Sequences, FiniteSets, TLC

\* ------------------------------------------------------------------------
\* Bounds of the model
\* ------------------------------------------------------------------------
MaxTime == 3        \* the clock runs 0..MaxTime
MaxEmbedded == 2    \* entries kept in one user's embedded subscriptions array
MaxFolders == 3     \* folder ids 1..MaxFolders are handed out, never reused
MaxPlaylists == 3   \* playlist ids 1..MaxPlaylists are handed out, never reused
MaxFollowing == 2   \* entries kept in one following list
MaxTiers == 7       \* tier documents ever stored (tiers are never hard-deleted)
MaxTracks == 2      \* entries in one playlist's track list
MaxDuration == 5    \* stored total duration of one playlist
MaxListed == 1      \* entries in one folder's playlists list
MaxCatalog == 5     \* track documents ever stored
MaxPlays == 3       \* play requests answered, per artist

\* One billing period, in clock ticks (endDate.setMonth(getMonth() + 1)).
MonthLen == 2

\* The tier limit per artist, and the price range in cents.
TierLimit == 3
MinPrice == 99
MaxPrice == 9999

\* The duration the upload route gives every track, and the length the play
\* route cuts recentlyPlayed to.
DefaultDuration == 180
RecentLimit == 50

\* Below this many local results the track search asks Last.fm.
FewResults == 5

\* ------------------------------------------------------------------------
\* Identifiers
\* ------------------------------------------------------------------------
Null == "null"            \* null / absent
Users == {"u1", "u2"}     \* ids of the accounts that may exist
ArtistIds == {"a1", "a2"} \* artists in the store
TierIds == {"t1", "t2", "t3", "t4"}
ContentIds == {"c1", "c2", "c3"}
MissingArtist == "a9"     \* a well-formed id naming no artist
MissingTier == "t9"
MissingContent == "c9"
MissingUser == "u9"

VARIABLES
  now,             \* the wall clock (new Date())
  tiers,           \* SubscriptionTier collection: id -> [artist, active]
  accepts,         \* Artist.acceptsSubscriptions, per artist
  customTiers,     \* Artist.hasCustomSubscriptionTiers, per artist
  userSubs,        \* UserSubscription collection, in insertion order (id = index)
  embeddedSubs,    \* follows.js: user.subscriptions, per user
  subscriberCount, \* follows.js: Artist.subscriberCount, per artist
  following,       \* User.following: [users, artists], per user
  userFollowers,   \* User.followerCount, per user
  artistFollowers, \* Artist.followerCount, per artist
  folders,         \* PlaylistFolder collection: id -> document
  nextFolder,      \* the next fresh folder id
  accounts,        \* User collection of the register flow: id -> document
  playlists,       \* Playlist collection: id -> document
  nextPlaylist,    \* the next fresh playlist id
  userFolders,     \* User.playlists.folders, per user
  resp,            \* the response of the last request handled
  pre,             \* history: the documents the last request found in the store
  streak,          \* history: a follow-artist request and its immediate repeat
  albums,          \* Album collection: id -> document
  catalog,         \* Track collection: id -> document
  nextTrack,       \* the next fresh track id
  trackCount,      \* Artist.trackCount, per artist
  totalPlays,      \* Artist.totalPlays, per artist
  recentlyPlayed,  \* User.recentlyPlayed, per user
  playing,         \* play requests under way: what each has read, how far it is
  artistDocs,      \* Artist documents the create-artist route stored: name -> document
  inflight         \* other requests under way: what each has read, how far it is

vars == <<now, tiers, accepts, customTiers, userSubs, embeddedSubs, subscriberCount,
          following, userFollowers, artistFollowers, folders, nextFolder,
          accounts, playlists, nextPlaylist, userFolders, resp, pre, streak,
          albums, catalog, nextTrack, trackCount, totalPlays, recentlyPlayed, playing,
          artistDocs, inflight>>

subVars == <<now, tiers, accepts, customTiers, userSubs, embeddedSubs, subscriberCount>>
followVars == <<following, userFollowers, artistFollowers>>
catalogVars == <<albums, catalog, nextTrack, trackCount, totalPlays, recentlyPlayed, playing>>
otherVars == <<artistDocs, inflight>>
folderVars == <<folders, nextFolder, userFolders>>
playlistVars == <<accounts, playlists, nextPlaylist>>

\* A response: what was asked, by whom, and the status and message sent.
Response(op, caller, target, status, msg) ==
  [op |-> op, caller |-> caller, target |-> target, status |-> status, msg |-> msg]

NoResponse == Response("none", Null, Null, 0, "")

NoStreak == [n |-> 0]

\* req.user.isAdmin: the tokens of auth.js carry only the user id, so the
\* flag is undefined on every request.
IsAdmin(u) == FALSE

\* ------------------------------------------------------------------------
\* String forms of ids.  An ObjectId prints as its lower-case hex string; a
\* populated document prints as its inspect() dump, never as its id.
\* ------------------------------------------------------------------------
IdToString(id) == <<"hex", id>>
DocToString(id) == <<"inspect", id>>

\* An id as a client may write it in a URL or a body: the hex string in lower
\* case, or the same digits in upper case.  Casting a string to an ObjectId
\* ignores the case of its digits.
LowerHex(id) == <<"hex", id>>
UpperHex(id) == <<"HEX", id>>
CastId(str) == str[2]
IdStrings(ids) == {LowerHex(id) : id \in ids} \cup {UpperHex(id) : id \in ids}

\* MongooseArray.includes(str): some element prints as str.
Includes(arr, str) == \E i \in 1..Len(arr) : IdToString(arr[i]) = str

\* arr.filter(id => id.toString() !== str)
FilterOut(arr, str) == SelectSeq(arr, LAMBDA id : IdToString(id) # str)

\* ------------------------------------------------------------------------
\* The store after seeding: tiers t1, t2 (active) and t3 (retired) of artist
\* a1, tier t4 of artist a2.
\* ------------------------------------------------------------------------
SeedTiers ==
  [t \in TierIds |->
     [artist |-> IF t = "t4" THEN "a2" ELSE "a1", active |-> t # "t3"]]

\* ExclusiveContent collection: c1 public, c2 exclusive with no tier named,
\* c3 exclusive and requiring tier t1; all of artist a1.
Contents ==
  [c \in ContentIds |->
     [artist |-> "a1",
      isPublic |-> (c = "c1"),
      minimumTierRequired |-> IF c = "c3" THEN "t1" ELSE Null]]

\* ========================================================================
\* subscriptions.js
\* ========================================================================

\* Mutant: the lookup does not ask for the artist.
TierFound_AnyArtist(t, a) ==
  t \in DOMAIN tiers /\ tiers[t].active

\* SubscriptionTier.findOne({_id, artist, active: true})
TierFound(t, a) ==
  t \in DOMAIN tiers /\ tiers[t].artist = a /\ tiers[t].active

\* Mutant: the lookup asks for paused subscriptions only.
ExistingSubscription_PausedOnly(u, a) ==
  {i \in 1..Len(userSubs) :
     /\ userSubs[i].user = u
     /\ userSubs[i].artist = a
     /\ userSubs[i].status = "paused"}

\* UserSubscription.findOne({user, artist, status: {$in: [active, paused]}})
ExistingSubscription(u, a) ==
  {i \in 1..Len(userSubs) :
     /\ userSubs[i].user = u
     /\ userSubs[i].artist = a
     /\ userSubs[i].status \in {"active", "paused"}}

\* The unique index {user: 1, artist: 1}: an insert of a second document
\* with the same pair fails with a duplicate-key error.
UniqueIndexAllows(u, a) ==
  \A i \in 1..Len(userSubs) : ~(userSubs[i].user = u /\ userSubs[i].artist = a)

\* The checks of POST / before the save; "ok" when all pass.
SubscribeCheck(u, a, t) ==
  IF a = Null \/ t = Null THEN <<400, "Artist and tier are required">>
  ELSE IF a \notin ArtistIds THEN <<404, "Artist not found">>
  ELSE IF ~accepts[a] THEN <<400, "This artist does not accept subscriptions">>
  ELSE IF ~TierFound(t, a) THEN <<404, "Subscription tier not found">>
  ELSE IF ExistingSubscription(u, a) # {}
    THEN <<400, "You already have an active subscription to this artist">>
  ELSE <<0, "ok">>

NewSubscription(u, a, t) ==
  [user |-> u, artist |-> a, tier |-> t, status |-> "active",
   currentPeriodEnd |-> now + MonthLen, autoRenew |-> TRUE]

\* POST /api/subscriptions
CreateSubscription(u, a, t) ==
  LET chk == SubscribeCheck(u, a, t) IN
  /\ IF chk[1] # 0
       THEN /\ resp' = Response("subscribe", u, <<a, t>>, chk[1], chk[2])
            /\ UNCHANGED userSubs
       ELSE IF UniqueIndexAllows(u, a)
         THEN /\ userSubs' = Append(userSubs, NewSubscription(u, a, t))
              /\ resp' = Response("subscribe", u, <<a, t>>, 201, "created")
         ELSE \* newSubscription.save() throws E11000; the catch answers 500
              /\ resp' = Response("subscribe", u, <<a, t>>, 500, "Server error")
              /\ UNCHANGED userSubs
  /\ pre' = userSubs
  /\ UNCHANGED <<now, tiers, accepts, customTiers, embeddedSubs, subscriberCount>>
  /\ UNCHANGED <<catalogVars, otherVars, followVars, folderVars, playlistVars, streak>>

\* PUT /api/subscriptions/:id/cancel
CancelSubscription(u, id) ==
  /\ IF id \notin 1..Len(userSubs)
       THEN /\ resp' = Response("cancel", u, id, 404, "Subscription not found")
            /\ UNCHANGED userSubs
       ELSE IF userSubs[id].user # u /\ ~IsAdmin(u)
         THEN /\ resp' = Response("cancel", u, id, 403, "Not authorized")
              /\ UNCHANGED userSubs
         ELSE /\ userSubs' = [userSubs EXCEPT ![id].status = "canceled",
                                              ![id].autoRenew = FALSE]
              /\ resp' = Response("cancel", u, id, 200, "canceled")
  /\ pre' = userSubs
  /\ UNCHANGED <<now, tiers, accepts, customTiers, embeddedSubs, subscriberCount>>
  /\ UNCHANGED <<catalogVars, otherVars, followVars, folderVars, playlistVars, streak>>

\* PUT /api/subscriptions/:id/change-tier
ChangeTier(u, id, t) ==
  /\ IF t = Null
       THEN /\ resp' = Response("changeTier", u, <<id, t>>, 400, "New tier ID is required")
            /\ UNCHANGED userSubs
       ELSE IF id \notin 1..Len(userSubs)
         THEN /\ resp' = Response("changeTier", u, <<id, t>>, 404, "Subscription not found")
              /\ UNCHANGED userSubs
         ELSE IF userSubs[id].user # u /\ ~IsAdmin(u)
           THEN /\ resp' = Response("changeTier", u, <<id, t>>, 403, "Not authorized")
                /\ UNCHANGED userSubs
           ELSE IF ~TierFound(t, userSubs[id].artist)
             THEN /\ resp' = Response("changeTier", u, <<id, t>>, 404, "New subscription tier not found")
                  /\ UNCHANGED userSubs
             ELSE /\ userSubs' = [userSubs EXCEPT ![id].tier = t]
                  /\ resp' = Response("changeTier", u, <<id, t>>, 200, "changed")
  /\ pre' = userSubs
  /\ UNCHANGED <<now, tiers, accepts, customTiers, embeddedSubs, subscriberCount>>
  /\ UNCHANGED <<catalogVars, otherVars, followVars, folderVars, playlistVars, streak>>

\* ========================================================================
\* models/UserSubscription.js and exclusive-content.js
\* ========================================================================

\* userSubscriptionSchema.methods.canAccessContent
canAccessContent(sub) ==
  sub.status \in {"active", "canceled"} /\ now <= sub.currentPeriodEnd

\* UserSubscription.findOne({user, artist, status: 'active'}): the indexes of
\* the matching documents (at most one, by the unique index).
ActiveSubscriptionOf(u, a) ==
  {i \in 1..Len(userSubs) :
     /\ userSubs[i].user = u
     /\ userSubs[i].artist = a
     /\ userSubs[i].status = "active"}

\* .populate(path): the referenced tier document, or Null when none exists.
Populate(t) == IF t # Null /\ t \in DOMAIN tiers THEN t ELSE Null

\* checkSubscriptionAccess followed by GET /:id; the status and message sent.
checkSubscriptionAccess(u, c) ==
  IF c \notin ContentIds THEN <<404, "Content not found">>
  ELSE IF Contents[c].isPublic THEN <<200, "content">>
  ELSE
    LET found == ActiveSubscriptionOf(u, Contents[c].artist) IN
    IF found = {} THEN <<403, "This content requires an active subscription">>
    ELSE
      LET sub == userSubs[CHOOSE i \in found : TRUE]
          required == Populate(Contents[c].minimumTierRequired)
          tier == Populate(sub.tier)
      IN
      IF ~canAccessContent(sub)
        THEN <<403, "This content requires an active subscription">>
      ELSE IF required # Null /\ tier # Null
                /\ DocToString(required) # IdToString(tier)
        THEN <<403, "This content requires a higher subscription tier">>
      ELSE <<200, "content">>

\* GET /api/exclusive-content/:id  (the view counter it bumps is read by no
\* handler and is left out)
GetContent(u, c) ==
  LET r == checkSubscriptionAccess(u, c) IN
  /\ resp' = Response("getContent", u, c, r[1], r[2])
  /\ pre' = userSubs
  /\ UNCHANGED <<catalogVars, otherVars, subVars, followVars, folderVars, playlistVars, streak>>

\* GET /api/exclusive-content/artist/:artistId: the ids of the documents the
\* query matches.  A content document that names no tier has no
\* minimumTierRequired field.  (The three items fit on the first page.)
ListedContent(u, a) ==
  LET found == ActiveSubscriptionOf(u, a)
      base == {c \in ContentIds :
                 /\ Contents[c].artist = a
                 /\ \/ Contents[c].isPublic
                    \/ ~Contents[c].isPublic /\ Contents[c].minimumTierRequired = Null}
  IN
  IF found = {} THEN base
  ELSE LET sub == userSubs[CHOOSE i \in found : TRUE]
           tier == Populate(sub.tier)
       IN
       IF ~canAccessContent(sub) THEN base
       ELSE IF tier # Null
         THEN base \cup {c \in ContentIds :
                           Contents[c].artist = a /\ Contents[c].minimumTierRequired = tier}
       ELSE {c \in ContentIds : Contents[c].artist = a}

ListContent(u, a) ==
  /\ resp' = Response("listContent", u, a, 200, ListedContent(u, a))
  /\ pre' = userSubs
  /\ UNCHANGED <<catalogVars, otherVars, subVars, followVars, folderVars, playlistVars, streak>>

\* Time passes.
Tick ==
  /\ now < MaxTime
  /\ now' = now + 1
  /\ UNCHANGED <<tiers, accepts, customTiers, userSubs, embeddedSubs, subscriberCount>>
  /\ UNCHANGED <<catalogVars, otherVars, followVars, folderVars, playlistVars, resp, pre, streak>>

\* The catalogue after the distributor's uploads: album al1 of artist a1 with
\* track 1 (number 2 on the album, duration 2) and track 2 (number 1,
\* duration 3).
AlbumIds == {"al1"}
MissingAlbum == "al9"
NoAlbum == "none"
NoNumber == 0
TrackDurations == <<2, 3>>
TrackNumbers == <<2, 1>>
TrackIds == DOMAIN TrackDurations
MissingTrack == 9
SeedAlbums == [al \in AlbumIds |-> [artist |-> "a1"]]
SeedCatalog ==
  [t \in TrackIds |->
     [artist |-> "a1", album |-> "al1", trackNumber |-> TrackNumbers[t],
      bodyAlbum |-> "al1", duration |-> TrackDurations[t], plays |-> 0]]

\* The clients whose play requests may overlap, and a request not under way.
Requests == {"r1", "r2"}
Idle == [step |-> "idle", user |-> Null, track |-> 0, plays |-> 0]

\* ------------------------------------------------------------------------
\* Initial stores
\* ------------------------------------------------------------------------
EmptyFollowing == [u \in Users |-> [users |-> <<>>, artists |-> <<>>]]

InitOther ==
  /\ now = 0
  /\ tiers = SeedTiers
  /\ customTiers = [a \in ArtistIds |-> TRUE]
  /\ userSubs = <<>>
  /\ embeddedSubs = [u \in Users |-> <<>>]
  /\ subscriberCount = [a \in ArtistIds |-> 0]
  /\ following = EmptyFollowing
  /\ userFollowers = [u \in Users |-> 0]
  /\ artistFollowers = [a \in ArtistIds |-> 0]
  /\ accounts = <<>>
  /\ playlists = <<>>
  /\ nextPlaylist = 1
  /\ resp = NoResponse
  /\ pre = Null
  /\ streak = NoStreak
  /\ albums = SeedAlbums
  /\ catalog = SeedCatalog
  /\ nextTrack = Cardinality(TrackIds) + 1
  /\ trackCount = [a \in ArtistIds |-> IF a = "a1" THEN Cardinality(TrackIds) ELSE 0]
  /\ totalPlays = [a \in ArtistIds |-> 0]
  /\ recentlyPlayed = [u \in Users |-> <<>>]
  /\ playing = [r \in Requests |-> Idle]
  /\ artistDocs = <<>>
  /\ inflight = [r \in Requests |-> Idle]

\* No folder has been created yet.
InitRest ==
  /\ InitOther
  /\ folders = <<>>
  /\ nextFolder = 1
  /\ userFolders = [u \in Users |-> <<>>]

\* Subscriptions and gated content: artist a1 accepts subscriptions, a2 not.
InitSub ==
  /\ InitRest
  /\ accepts = [a \in ArtistIds |-> a = "a1"]

NextSub ==
  \/ \E u \in Users, a \in ArtistIds \cup {MissingArtist, Null},
        t \in TierIds \cup {Null} : CreateSubscription(u, a, t)
  \/ \E u \in Users, id \in 1..3 : CancelSubscription(u, id)
  \/ \E u \in Users, id \in 1..3, t \in {"t1", "t2", "t3", MissingTier, Null} :
        ChangeTier(u, id, t)
  \/ \E u \in Users, c \in ContentIds \cup {MissingContent} : GetContent(u, c)
  \/ Tick

SpecSub == InitSub /\ [][NextSub]_vars

\* Users subscribe to artist a1 and cancel, ask for single content items and
\* for the artist's listing, while time passes.
NextContent ==
  \/ \E u \in Users, t \in {"t1", "t2"} : CreateSubscription(u, "a1", t)
  \/ \E u \in Users, id \in 1..2 : CancelSubscription(u, id)
  \/ \E u \in Users, c \in ContentIds \cup {MissingContent} : GetContent(u, c)
  \/ \E u \in Users, a \in ArtistIds : ListContent(u, a)
  \/ Tick

SpecContent == InitSub /\ [][NextContent]_vars

\* ========================================================================
\* follows.js: the artist subscription kept on the user document
\* ========================================================================

\* user.subscriptions.find(sub => sub.artist == artist && sub.status == 'active')
EmbeddedActive(u, a) ==
  {i \in 1..Len(embeddedSubs[u]) :
     embeddedSubs[u][i].artist = a /\ embeddedSubs[u][i].status = "active"}

\* POST /api/follows/subscribe/artists/:artistId.  The two writes run in one
\* transaction; `fail` is the step at which the store fails ("none": no
\* failure).  A failed transaction is aborted and persists nothing.
SubscribeArtist(u, a, fail) ==
  /\ IF a \notin ArtistIds
       THEN /\ resp' = Response("subscribeArtist", u, a, 404, "Artist not found")
            /\ UNCHANGED <<embeddedSubs, subscriberCount>>
       ELSE IF EmbeddedActive(u, a) # {}
         THEN /\ resp' = Response("subscribeArtist", u, a, 400, "Already subscribed to this artist")
              /\ UNCHANGED <<embeddedSubs, subscriberCount>>
         ELSE /\ Len(embeddedSubs[u]) < MaxEmbedded
              /\ IF fail = "none"
                   THEN /\ embeddedSubs' = [embeddedSubs EXCEPT ![u] =
                             Append(@, [artist |-> a, status |-> "active"])]
                        /\ subscriberCount' = [subscriberCount EXCEPT ![a] = @ + 1]
                        /\ resp' = Response("subscribeArtist", u, a, 200, "subscribed")
                   ELSE \* abortTransaction, then the outer catch answers 500
                        /\ UNCHANGED <<embeddedSubs, subscriberCount>>
                        /\ resp' = Response("subscribeArtist", u, a, 500, fail)
  /\ pre' = <<embeddedSubs, subscriberCount>>
  /\ UNCHANGED <<now, tiers, accepts, customTiers, userSubs>>
  /\ UNCHANGED <<catalogVars, otherVars, followVars, folderVars, playlistVars, streak>>

\* POST /api/follows/subscribe/artists/:artistId/cancel
CancelArtistSubscription(u, a) ==
  /\ IF EmbeddedActive(u, a) = {}
       THEN /\ resp' = Response("cancelArtist", u, a, 404, "No active subscription found")
            /\ UNCHANGED <<embeddedSubs, subscriberCount>>
       ELSE LET i == CHOOSE j \in EmbeddedActive(u, a) :
                       \A k \in EmbeddedActive(u, a) : j <= k IN
            /\ embeddedSubs' = [embeddedSubs EXCEPT ![u][i].status = "cancelled"]
            /\ subscriberCount' = [subscriberCount EXCEPT ![a] = @ - 1]
            /\ resp' = Response("cancelArtist", u, a, 200, "cancelled")
  /\ pre' = <<embeddedSubs, subscriberCount>>
  /\ UNCHANGED <<now, tiers, accepts, customTiers, userSubs>>
  /\ UNCHANGED <<catalogVars, otherVars, followVars, folderVars, playlistVars, streak>>

\* Both subscribe routes side by side.
NextSubscribe ==
  \/ \E u \in Users, a \in ArtistIds \cup {MissingArtist},
        fail \in {"none", "save", "update", "commit"} : SubscribeArtist(u, a, fail)
  \/ \E u \in Users, a \in ArtistIds : CancelArtistSubscription(u, a)
  \/ \E u \in Users, a \in ArtistIds, t \in {"t1", "t3"} : CreateSubscription(u, a, t)
  \/ \E u \in Users, id \in 1..2 : CancelSubscription(u, id)

SpecSubscribe == InitSub /\ [][NextSubscribe]_vars

\* ========================================================================
\* follows.js: following users and artists
\* ========================================================================

FollowSnapshot ==
  [following |-> following, userFollowers |-> userFollowers,
   artistFollowers |-> artistFollowers]

\* History: `streak` remembers a caller's successful follow of an artist
\* (n = 1, with the follower counter it found) until a request that concerns
\* that artist arrives; if that request is the same caller following the same
\* artist again, the streak records its answer (n = 2).
StreakAfter(op, u, a, status) ==
  IF streak.n = 1 /\ op = "followArtist" /\ u = streak.caller /\ a = streak.artist
    THEN [n |-> 2, caller |-> u, artist |-> a, base |-> streak.base,
          second |-> status]
  ELSE IF streak.n = 1 /\ a # streak.artist
    THEN streak
  ELSE IF op = "followArtist" /\ status = 200
    THEN [n |-> 1, caller |-> u, artist |-> a, base |-> artistFollowers[a],
          second |-> 0]
  ELSE NoStreak

\* Mutant: the already-following check never fires.
AlreadyFollowingArtist_Never(u, a) == FALSE

\* user.following.artists.includes(artist._id)
AlreadyFollowingArtist(u, a) == Includes(following[u].artists, IdToString(a))

\* user.following.users.includes(userToFollow._id)
AlreadyFollowingUser(u, t) == Includes(following[u].users, IdToString(t))

\* Mutant: the unfollow route takes every artist as followed.
WasFollowingArtist_Always(u, str) == TRUE

\* wasFollowing = user.following.artists.includes(req.params.artistId)
WasFollowingArtist(u, str) == Includes(following[u].artists, str)

\* wasFollowing = user.following.users.includes(req.params.userId)
WasFollowingUser(u, str) == Includes(following[u].users, str)

\* Mutant: an unfollow that found nothing to remove answers 400.
UnfollowStatus_Strict(wasFollowing) == IF wasFollowing THEN 200 ELSE 400

\* The status of res.json(...) at the end of both unfollow routes.
UnfollowStatus(wasFollowing) == 200

\* POST /api/follows/users/:userId
FollowUser(u, str) ==
  LET t == CastId(str) IN
  /\ IF IdToString(u) = str
       THEN /\ resp' = Response("followUser", u, str, 400, "Cannot follow yourself")
            /\ UNCHANGED followVars
       ELSE IF t \notin Users
         THEN /\ resp' = Response("followUser", u, str, 404, "User not found")
              /\ UNCHANGED followVars
         ELSE IF AlreadyFollowingUser(u, t)
           THEN /\ resp' = Response("followUser", u, str, 400, "Already following this user")
                /\ UNCHANGED followVars
           ELSE /\ Len(following[u].users) < MaxFollowing
                /\ following' = [following EXCEPT ![u].users = Append(@, t)]
                /\ userFollowers' = [userFollowers EXCEPT ![t] = @ + 1]
                /\ resp' = Response("followUser", u, str, 200, "Successfully followed user")
                /\ UNCHANGED artistFollowers
  /\ pre' = FollowSnapshot
  /\ streak' = StreakAfter("followUser", u, Null, 0)
  /\ UNCHANGED <<catalogVars, otherVars, subVars, folderVars, playlistVars>>

\* DELETE /api/follows/users/:userId
UnfollowUser(u, str) ==
  LET wasFollowing == WasFollowingUser(u, str) IN
  /\ IF wasFollowing
       THEN /\ following' = [following EXCEPT ![u].users = FilterOut(@, str)]
            /\ userFollowers' = [t \in Users |->
                 IF t = CastId(str) THEN userFollowers[t] - 1 ELSE userFollowers[t]]
       ELSE UNCHANGED <<following, userFollowers>>
  /\ resp' = Response("unfollowUser", u, str, UnfollowStatus(wasFollowing),
                      "Successfully unfollowed user")
  /\ pre' = FollowSnapshot
  /\ streak' = StreakAfter("unfollowUser", u, Null, 0)
  /\ UNCHANGED <<catalogVars, otherVars, artistFollowers, subVars, folderVars, playlistVars>>

\* POST /api/follows/artists/:artistId
FollowArtist(u, str) ==
  LET a == CastId(str)
      found == a \in ArtistIds
      status == IF ~found THEN 404
                ELSE IF AlreadyFollowingArtist(u, a) THEN 400 ELSE 200
  IN
  /\ IF status = 404
       THEN /\ resp' = Response("followArtist", u, str, 404, "Artist not found")
            /\ UNCHANGED followVars
       ELSE IF status = 400
         THEN /\ resp' = Response("followArtist", u, str, 400, "Already following this artist")
              /\ UNCHANGED followVars
         ELSE /\ Len(following[u].artists) < MaxFollowing
              /\ following' = [following EXCEPT ![u].artists = Append(@, a)]
              /\ artistFollowers' = [artistFollowers EXCEPT ![a] = @ + 1]
              /\ resp' = Response("followArtist", u, str, 200, "Successfully followed artist")
              /\ UNCHANGED userFollowers
  /\ pre' = FollowSnapshot
  /\ streak' = StreakAfter("followArtist", u, a, status)
  /\ UNCHANGED <<catalogVars, otherVars, subVars, folderVars, playlistVars>>

\* DELETE /api/follows/artists/:artistId
UnfollowArtist(u, str) ==
  LET wasFollowing == WasFollowingArtist(u, str) IN
  /\ IF wasFollowing
       THEN /\ following' = [following EXCEPT ![u].artists = FilterOut(@, str)]
            /\ artistFollowers' = [a \in ArtistIds |->
                 IF a = CastId(str) THEN artistFollowers[a] - 1 ELSE artistFollowers[a]]
       ELSE UNCHANGED <<following, artistFollowers>>
  /\ resp' = Response("unfollowArtist", u, str, UnfollowStatus(wasFollowing),
                      "Successfully unfollowed artist")
  /\ pre' = FollowSnapshot
  /\ streak' = StreakAfter("unfollowArtist", u, CastId(str), 0)
  /\ UNCHANGED <<catalogVars, otherVars, userFollowers, subVars, folderVars, playlistVars>>

NextFollow ==
  \/ \E u \in Users, str \in IdStrings(Users \cup {MissingUser}) : FollowUser(u, str)
  \/ \E u \in Users, str \in IdStrings(Users \cup {MissingUser}) : UnfollowUser(u, str)
  \/ \E u \in Users, str \in IdStrings(ArtistIds \cup {MissingArtist}) : FollowArtist(u, str)
  \/ \E u \in Users, str \in IdStrings(ArtistIds \cup {MissingArtist}) : UnfollowArtist(u, str)

SpecFollow == InitSub /\ [][NextFollow]_vars

\* ------------------------------------------------------------------------
\* The artist follow routes as the awaits split them: each handler reads the
\* user document, saves it, and then updates the artist's counter, and other
\* requests may run between any two of these steps.
\* ------------------------------------------------------------------------

\* The other requests that hold a copy of user u's document learn nothing of
\* a save: their copy is out of date from then on.
Outdate(r, u) ==
  [q \in Requests |->
     IF q # r /\ inflight[q].step # "idle" /\ inflight[q].user = u
       THEN [inflight[q] EXCEPT !.stale = TRUE]
     ELSE inflight[q]]

\* POST /api/follows/artists/:artistId up to the push: Artist.findById,
\* User.findById and the already-following test on the copy read.
FollowArtistRead(r, u, str) ==
  LET a == CastId(str) IN
  /\ inflight[r].step = "idle"
  /\ IF a \notin ArtistIds
       THEN /\ resp' = Response("followArtist", u, str, 404, "Artist not found")
            /\ UNCHANGED inflight
       ELSE IF AlreadyFollowingArtist(u, a)
         THEN /\ resp' = Response("followArtist", u, str, 400, "Already following this artist")
              /\ UNCHANGED inflight
         ELSE /\ artistFollowers[a] < MaxFollowing
              /\ inflight' = [inflight EXCEPT ![r] =
                   [step |-> "followSave", user |-> u, artist |-> a, str |-> str,
                    list |-> <<>>, stale |-> FALSE]]
              /\ UNCHANGED resp
  /\ UNCHANGED <<catalogVars, artistDocs, subVars, followVars, folderVars, playlistVars,
                 pre, streak>>

\* user.following.artists.push(artist._id); await user.save(): the save sends
\* the push ($push), which the store applies to the list it holds now.
FollowArtistSave(r) ==
  LET u == inflight[r].user IN
  /\ inflight[r].step = "followSave"
  /\ following' = [following EXCEPT ![u].artists = Append(@, inflight[r].artist)]
  /\ inflight' = [Outdate(r, u) EXCEPT ![r].step = "followInc"]
  /\ UNCHANGED <<catalogVars, artistDocs, subVars, userFollowers, artistFollowers,
                 folderVars, playlistVars, resp, pre, streak>>

\* Artist.findByIdAndUpdate(artist._id, {$inc: {followerCount: 1}}) and the
\* response.
FollowArtistInc(r) ==
  /\ inflight[r].step = "followInc"
  /\ artistFollowers' = [artistFollowers EXCEPT ![inflight[r].artist] = @ + 1]
  /\ resp' = Response("followArtist", inflight[r].user, inflight[r].str, 200,
                      "Successfully followed artist")
  /\ inflight' = [inflight EXCEPT ![r] = Idle]
  /\ UNCHANGED <<catalogVars, artistDocs, subVars, following, userFollowers,
                 folderVars, playlistVars, pre, streak>>

\* DELETE /api/follows/artists/:artistId up to the save: User.findById, the
\* wasFollowing test and the filter, all on the copy read.
UnfollowArtistRead(r, u, str) ==
  /\ inflight[r].step = "idle"
  /\ IF ~WasFollowingArtist(u, str)
       THEN /\ resp' = Response("unfollowArtist", u, str, UnfollowStatus(FALSE),
                                "Successfully unfollowed artist")
            /\ UNCHANGED inflight
       ELSE /\ inflight' = [inflight EXCEPT ![r] =
                 [step |-> "unfollowSave", user |-> u, artist |-> CastId(str), str |-> str,
                  list |-> FilterOut(following[u].artists, str), stale |-> FALSE]]
            /\ UNCHANGED resp
  /\ UNCHANGED <<catalogVars, artistDocs, subVars, followVars, folderVars, playlistVars,
                 pre, streak>>

\* await user.save() of the reassigned array: the save sets the whole list
\* ($set) and asks for the document version it read; a copy out of date makes
\* it throw a VersionError, which the catch answers with 500.
UnfollowArtistSave(r) ==
  LET u == inflight[r].user IN
  /\ inflight[r].step = "unfollowSave"
  /\ IF inflight[r].stale
       THEN /\ resp' = Response("unfollowArtist", u, inflight[r].str, 500, "VersionError")
            /\ inflight' = [inflight EXCEPT ![r] = Idle]
            /\ UNCHANGED following
       ELSE /\ following' = [following EXCEPT ![u].artists = inflight[r].list]
            /\ inflight' = [Outdate(r, u) EXCEPT ![r].step = "unfollowInc"]
            /\ UNCHANGED resp
  /\ UNCHANGED <<catalogVars, artistDocs, subVars, userFollowers, artistFollowers,
                 folderVars, playlistVars, pre, streak>>

\* Artist.findByIdAndUpdate(req.params.artistId, {$inc: {followerCount: -1}})
\* and the response.
UnfollowArtistInc(r) ==
  /\ inflight[r].step = "unfollowInc"
  /\ artistFollowers' = [artistFollowers EXCEPT ![inflight[r].artist] = @ - 1]
  /\ resp' = Response("unfollowArtist", inflight[r].user, inflight[r].str, 200,
                      "Successfully unfollowed artist")
  /\ inflight' = [inflight EXCEPT ![r] = Idle]
  /\ UNCHANGED <<catalogVars, artistDocs, subVars, following, userFollowers,
                 folderVars, playlistVars, pre, streak>>

\* Overlapping follow and unfollow requests for artist a1.
NextFollowRace ==
  \/ \E r \in Requests, u \in Users : FollowArtistRead(r, u, LowerHex("a1"))
  \/ \E r \in Requests : FollowArtistSave(r)
  \/ \E r \in Requests : FollowArtistInc(r)
  \/ \E r \in Requests, u \in Users : UnfollowArtistRead(r, u, LowerHex("a1"))
  \/ \E r \in Requests : UnfollowArtistSave(r)
  \/ \E r \in Requests : UnfollowArtistInc(r)

SpecFollowRace == InitSub /\ [][NextFollowRace]_vars

\* ========================================================================
\* playlist-folders.js, middleware/validation.js, models/PlaylistFolder.js
\* ========================================================================
FolderIds == 1..MaxFolders
PlaylistIds == 1..MaxPlaylists

\* A body field that should hold an id string: null, or not given at all.
NullField == <<"null", 0>>
Undefined == <<"undefined", 0>>

\* A JavaScript truthiness test of such a field.
Truthy(x) == x[1] \notin {"null", "undefined"}

\* A stored reference that is null.
NoFolder == 0

\* PlaylistFolder.findById(id) finds a document.
FolderExists(id) == id \in DOMAIN folders

\* validateFolderStructure, the walk up from the new parent: "circular" when
\* an ancestor prints as the folder id of the URL, "corrupt" when the chain
\* revisits a folder, "ok" when the chain ends (or breaks off).
RECURSIVE MiddlewareWalk(_, _, _)
MiddlewareWalk(cur, folderId, visitedIds) ==
  LET p == folders[cur].parentFolder IN
  IF p = NoFolder THEN "ok"
  ELSE IF IdToString(p) \in visitedIds THEN "corrupt"
  ELSE IF IdToString(p) = folderId THEN "circular"
  ELSE IF ~FolderExists(p) THEN "ok"
  ELSE MiddlewareWalk(p, folderId, visitedIds \cup {IdToString(p)})

\* Mutant: the middleware does not walk the chain of the new parent.
validateFolderStructure_NoWalk(u, folderId, parentFolder) ==
  IF ~Truthy(parentFolder) THEN <<0, "next">>
  ELSE IF parentFolder = folderId
    THEN <<400, "Cannot set folder as its own parent">>
  ELSE IF ~FolderExists(CastId(parentFolder))
    THEN <<404, "Parent folder not found">>
  ELSE IF folders[CastId(parentFolder)].owner # u
    THEN <<403, "Not authorized to use this parent folder">>
  ELSE <<0, "next">>

\* validateFolderStructure: <<0, "next">> when the request goes on to the
\* handler, else the response sent.
validateFolderStructure(u, folderId, parentFolder) ==
  IF ~Truthy(parentFolder) THEN <<0, "next">>
  ELSE IF parentFolder = folderId
    THEN <<400, "Cannot set folder as its own parent">>
  ELSE IF ~FolderExists(CastId(parentFolder))
    THEN <<404, "Parent folder not found">>
  ELSE IF folders[CastId(parentFolder)].owner # u
    THEN <<403, "Not authorized to use this parent folder">>
  ELSE LET w == MiddlewareWalk(CastId(parentFolder), folderId, {}) IN
       IF w = "corrupt"
         THEN <<400, "Circular reference detected in existing folders">>
       ELSE IF w = "circular"
         THEN <<400, "Cannot create circular folder reference">>
       ELSE <<0, "next">>

\* The walk of the PUT handler: no visited set, and no test of a parent that
\* is gone (reading .parentFolder of null throws).  `fuel` counts the steps
\* left before the walk is known to run for ever.
RECURSIVE HandlerWalk(_, _, _)
HandlerWalk(cur, folderId, fuel) ==
  LET p == folders[cur].parentFolder IN
  IF p = NoFolder THEN "ok"
  ELSE IF IdToString(p) = folderId THEN "circular"
  ELSE IF ~FolderExists(p) THEN "throw"
  ELSE IF fuel = 0 THEN "diverge"
  ELSE HandlerWalk(p, folderId, fuel - 1)

\* The checks of the PUT handler, after the middleware has passed.
UpdateFolderCheck(u, folderId, parentFolder) ==
  IF ~FolderExists(CastId(folderId)) THEN <<404, "Folder not found">>
  ELSE IF folders[CastId(folderId)].owner # u THEN <<403, "Not authorized to edit this folder">>
  ELSE IF ~Truthy(parentFolder) THEN <<0, "ok">>
  ELSE IF parentFolder = folderId
    THEN <<400, "Cannot set folder as its own parent">>
  ELSE IF ~FolderExists(CastId(parentFolder))
    THEN <<404, "Parent folder not found">>
  ELSE IF folders[CastId(parentFolder)].owner # u
    THEN <<403, "Not authorized to use this parent folder">>
  ELSE LET w == HandlerWalk(CastId(parentFolder), folderId, MaxFolders) IN
       IF w = "circular" THEN <<400, "Cannot create circular folder reference">>
       ELSE IF w = "throw" THEN <<500, "Server error">>
       ELSE IF w = "diverge" THEN <<-1, "no response">>
       ELSE <<0, "ok">>

\* POST /api/playlist-folders
CreateFolder(u, hasName, parentFolder) ==
  /\ IF ~hasName
       THEN /\ resp' = Response("createFolder", u, parentFolder, 400, "Folder name is required")
            /\ UNCHANGED folderVars
       ELSE IF Truthy(parentFolder) /\ ~FolderExists(CastId(parentFolder))
         THEN /\ resp' = Response("createFolder", u, parentFolder, 404, "Parent folder not found")
              /\ UNCHANGED folderVars
         ELSE IF Truthy(parentFolder) /\ folders[CastId(parentFolder)].owner # u
           THEN /\ resp' = Response("createFolder", u, parentFolder, 403,
                                    "Not authorized to use this parent folder")
                /\ UNCHANGED folderVars
           ELSE /\ nextFolder <= MaxFolders
                /\ folders' = folders @@ (nextFolder :>
                     [owner |-> u,
                      parentFolder |-> IF Truthy(parentFolder) THEN CastId(parentFolder)
                                       ELSE NoFolder,
                      playlists |-> <<>>])
                /\ userFolders' = [userFolders EXCEPT ![u] = Append(@, nextFolder)]
                /\ nextFolder' = nextFolder + 1
                /\ resp' = Response("createFolder", u, parentFolder, 201, "created")
  /\ pre' = folders
  /\ UNCHANGED <<catalogVars, otherVars, subVars, followVars, playlistVars, streak>>

\* PUT /api/playlist-folders/:id, behind validateFolderStructure.  Only the
\* parent link is kept of the folder's fields; a body without parentFolder
\* (Undefined) leaves it alone.
UpdateFolder(u, folderId, parentFolder) ==
  LET mw == validateFolderStructure(u, folderId, parentFolder)
      r == IF mw[1] # 0 THEN mw ELSE UpdateFolderCheck(u, folderId, parentFolder)
  IN
  /\ IF r[1] # 0
       THEN /\ resp' = Response("updateFolder", u, <<folderId, parentFolder>>, r[1], r[2])
            /\ UNCHANGED folderVars
       ELSE /\ folders' =
                 IF parentFolder = Undefined THEN folders
                 ELSE [folders EXCEPT ![CastId(folderId)].parentFolder =
                         IF Truthy(parentFolder) THEN CastId(parentFolder) ELSE NoFolder]
            /\ resp' = Response("updateFolder", u, <<folderId, parentFolder>>, 200, "updated")
            /\ UNCHANGED <<nextFolder, userFolders>>
  /\ pre' = folders
  /\ UNCHANGED <<catalogVars, otherVars, subVars, followVars, playlistVars, streak>>

\* Playlist.updateMany({folder: f}, {folder: target})
MovePlaylistsOf(pls, f, target) ==
  [p \in DOMAIN pls |->
     IF pls[p].folder = f THEN [pls[p] EXCEPT !.folder = target] ELSE pls[p]]

\* The pre('remove') hook of PlaylistFolder, on the playlist collection:
\* every playlist listed in the folder loses its folder.
UnlinkListed(pls, listed) ==
  [p \in DOMAIN pls |->
     IF \E i \in 1..Len(listed) : listed[i] = p
       THEN [pls[p] EXCEPT !.folder = NoFolder] ELSE pls[p]]

\* The pre('remove') hook on the folder collection, and the removal itself:
\* the children of f become roots, f is gone.
RemoveFolder(f) ==
  [g \in DOMAIN folders \ {f} |->
     IF folders[g].parentFolder = f
       THEN [folders[g] EXCEPT !.parentFolder = NoFolder]
     ELSE folders[g]]

\* DELETE /api/playlist-folders/:id?action=...
DeleteFolder(u, folderId, action) ==
  LET f == CastId(folderId)
      folder == folders[f]
  IN
  /\ IF ~FolderExists(f)
       THEN /\ resp' = Response("deleteFolder", u, <<folderId, action>>, 404, "Folder not found")
            /\ UNCHANGED <<folderVars, playlists>>
       ELSE IF folder.owner # u /\ ~IsAdmin(u)
         THEN /\ resp' = Response("deleteFolder", u, <<folderId, action>>, 403,
                                  "Not authorized to delete this folder")
              /\ UNCHANGED <<folderVars, playlists>>
         ELSE /\ playlists' = UnlinkListed(
                   MovePlaylistsOf(playlists, f,
                     IF action # "delete_contents" THEN folder.parentFolder ELSE NoFolder),
                   folder.playlists)
              /\ userFolders' = [userFolders EXCEPT ![folder.owner] =
                   SelectSeq(@, LAMBDA g : g # f)]
              /\ folders' = RemoveFolder(f)
              /\ resp' = Response("deleteFolder", u, <<folderId, action>>, 200,
                                  "Folder deleted successfully")
              /\ UNCHANGED nextFolder
  /\ pre' = [folders |-> folders, playlists |-> playlists]
  /\ UNCHANGED <<catalogVars, otherVars, subVars, followVars, accounts, nextPlaylist, streak>>

FolderStrings == IdStrings(FolderIds)
LowerFolderStrings == {LowerHex(f) : f \in FolderIds}

NextFolder ==
  \/ \E u \in Users, hasName \in BOOLEAN, parentFolder \in FolderStrings \cup {NullField} :
        CreateFolder(u, hasName, parentFolder)
  \/ \E u \in Users, folderId \in FolderStrings,
        parentFolder \in FolderStrings \cup {NullField, Undefined} :
        UpdateFolder(u, folderId, parentFolder)
  \/ \E u \in Users, folderId \in FolderStrings, action \in {"move", "delete_contents"} :
        DeleteFolder(u, folderId, action)

SpecFolder == InitSub /\ [][NextFolder]_vars

\* Stored folder data of any shape: every folder is owned by user u1 and has
\* a parent link that is absent, names a stored folder (itself included, cycles
\* included), or names a folder that is gone.
GoneFolder == MaxFolders + 1
AnyFolders ==
  [FolderIds -> [owner : {"u1"}, parentFolder : {NoFolder} \cup FolderIds \cup {GoneFolder},
                 playlists : {<<>>}]]

InitFolderData ==
  /\ InitOther
  /\ accepts = [a \in ArtistIds |-> a = "a1"]
  /\ folders \in AnyFolders
  /\ nextFolder = MaxFolders + 1
  /\ userFolders = [u \in Users |-> <<>>]

NextFolderData ==
  \E u \in Users, folderId \in FolderStrings,
     parentFolder \in LowerFolderStrings \cup {NullField} :
     UpdateFolder(u, folderId, parentFolder)

SpecFolderData == InitFolderData /\ [][NextFolderData]_vars

\* ------------------------------------------------------------------------
\* The parent change as its awaits split it: the checks of the middleware and
\* of the handler read the stored folders, and folder.save() writes the new
\* parent link later; other requests may run in between.
\* ------------------------------------------------------------------------

\* validateFolderStructure and the handler up to folder.save()
UpdateFolderValidate(r, u, folderId, parentFolder) ==
  LET mw == validateFolderStructure(u, folderId, parentFolder)
      chk == IF mw[1] # 0 THEN mw ELSE UpdateFolderCheck(u, folderId, parentFolder)
  IN
  /\ inflight[r].step = "idle"
  /\ IF chk[1] # 0
       THEN /\ resp' = Response("updateFolder", u, <<folderId, parentFolder>>, chk[1], chk[2])
            /\ UNCHANGED inflight
       ELSE /\ inflight' = [inflight EXCEPT ![r] =
                 [step |-> "folderSave", user |-> u, folderId |-> folderId,
                  parentFolder |-> parentFolder]]
            /\ UNCHANGED resp
  /\ pre' = folders
  /\ UNCHANGED <<catalogVars, artistDocs, subVars, followVars, folderVars, playlistVars, streak>>

\* folder.parentFolder = parentFolder || null; await folder.save(); res.json
UpdateFolderSave(r) ==
  LET folderId == inflight[r].folderId
      parentFolder == inflight[r].parentFolder
  IN
  /\ inflight[r].step = "folderSave"
  /\ folders' =
       IF parentFolder = Undefined THEN folders
       ELSE [folders EXCEPT ![CastId(folderId)].parentFolder =
               IF Truthy(parentFolder) THEN CastId(parentFolder) ELSE NoFolder]
  /\ resp' = Response("updateFolder", inflight[r].user, <<folderId, parentFolder>>, 200,
                      "updated")
  /\ inflight' = [inflight EXCEPT ![r] = Idle]
  /\ UNCHANGED <<catalogVars, artistDocs, subVars, followVars, nextFolder, userFolders,
                 playlistVars, pre, streak>>

\* User u1 creates folders and sends parent changes that may overlap.
NextFolderRace ==
  \/ \E parentFolder \in LowerFolderStrings \cup {NullField} :
        CreateFolder("u1", TRUE, parentFolder)
  \/ \E r \in Requests, folderId \in LowerFolderStrings,
        parentFolder \in LowerFolderStrings \cup {NullField} :
        UpdateFolderValidate(r, "u1", folderId, parentFolder)
  \/ \E r \in Requests : UpdateFolderSave(r)

SpecFolderRace == InitSub /\ [][NextFolderRace]_vars

\* ========================================================================
\* auth.js (register) and playlists.js
\* ========================================================================
\* Text a client sends: the letters, and whether they are written in lower
\* or in upper case.
Lower(text) == <<"lower", text>>
Upper(text) == <<"UPPER", text>>

\* String.prototype.toLowerCase, and the `lowercase: true` setter of
\* User.email, which Mongoose applies to documents and to query filters.
ToLowerCase(str) == <<"lower", str[2]>>

Usernames == {Lower("alice"), Lower("bob")}
Emails == {Lower("alice@x"), Upper("alice@x"), Lower("bob@x")}
Passwords == {"pw1", "pw2"}
NoPassword == "undefined"     \* a body without a password
PlaylistNames == {"Liked Songs", "Mix"}
NoName == ""                  \* a body without a name

\* bcrypt.hash: a one-way tag around its input.
Hash(x) == <<"bcrypt", x>>

\* bcrypt.compare(candidate, stored): stored is the hash of candidate.
Compare(candidate, stored) == stored = Hash(candidate)

\* A body whose playlistIds is missing or empty.
NoPlaylist == 0

\* The owner written on a playlist whose user document was never stored.
UnsavedUser == "u0"

\* A playlist document with the schema defaults; it carries the fields of
\* both schema versions the routes rely on (isSystem, and type).
NewPlaylist(name, owner, isSystem, type, isPublic) ==
  [name |-> name, owner |-> owner, isSystem |-> isSystem, type |-> type,
   isPublic |-> isPublic, folder |-> NoFolder, tracks |-> <<>>,
   followers |-> <<>>, followerCount |-> 0, totalDuration |-> 0]

\* Mutant: the lookup asks for the username only.
UserExists_UsernameOnly(username, email) ==
  \E u \in DOMAIN accounts : accounts[u].username = username

\* User.findOne({$or: [{email}, {username}]}) finds a document.
UserExists(username, email) ==
  \E u \in DOMAIN accounts :
    accounts[u].email = ToLowerCase(email) \/ accounts[u].username = username

\* The unique indexes of User.username and User.email refuse the document.
UserIndexRefuses(username, email) ==
  \E u \in DOMAIN accounts :
    accounts[u].email = ToLowerCase(email) \/ accounts[u].username = username

\* POST /api/auth/register.  `complete` tells whether the body carries the
\* first and last name the user schema requires: without them, or when a
\* unique index refuses the user, the Liked Songs playlist is already saved
\* when user.save() fails.  The message of a 201 is the payload of the token.
Register(username, email, password, complete) ==
  /\ IF UserExists(username, email)
       THEN /\ resp' = Response("register", Null, <<username, email>>, 400,
                                "User already exists with that email or username")
            /\ UNCHANGED playlistVars
       ELSE /\ nextPlaylist <= MaxPlaylists
            /\ IF complete /\ ~UserIndexRefuses(username, email)
                 THEN \E u \in Users \ DOMAIN accounts :
                        /\ playlists' = playlists @@ (nextPlaylist :>
                             NewPlaylist("Liked Songs", u, TRUE, "user", TRUE))
                        /\ accounts' = accounts @@ (u :>
                             [username |-> username, email |-> ToLowerCase(email),
                              password |-> Hash(Hash(password)),
                              liked |-> nextPlaylist, created |-> <<>>])
                        /\ resp' = Response("register", u, <<username, email>>, 201,
                                            <<"id", u>>)
                 ELSE /\ playlists' = playlists @@ (nextPlaylist :>
                           NewPlaylist("Liked Songs", UnsavedUser, TRUE, "user", TRUE))
                      /\ resp' = Response("register", Null, <<username, email>>, 500,
                                          "user.save() failed")
                      /\ UNCHANGED accounts
            /\ nextPlaylist' = nextPlaylist + 1
  /\ pre' = [accounts |-> accounts, playlists |-> playlists]
  /\ UNCHANGED <<catalogVars, otherVars, subVars, followVars, folderVars, streak>>

\* User.findOne({$or: [{email: login.toLowerCase()}, {username: login}]})
\* against the user collection accts.
FindByLogin(accts, login) ==
  {u \in DOMAIN accts :
     accts[u].email = ToLowerCase(login) \/ accts[u].username = login}

\* The response of POST /api/auth/login against the user collection accts:
\* status, message, and the user the token names.  bcrypt.compare rejects a
\* candidate that is not a string, which the catch answers with a 500.
LoginResponse(accts, login, password) ==
  IF FindByLogin(accts, login) = {}
    THEN [status |-> 401, msg |-> "Invalid credentials", user |-> Null]
  ELSE LET u == CHOOSE x \in FindByLogin(accts, login) : TRUE IN
       IF password = NoPassword
         THEN [status |-> 500, msg |-> "Error logging in", user |-> Null]
       ELSE IF ~Compare(password, accts[u].password)
         THEN [status |-> 401, msg |-> "Invalid credentials", user |-> Null]
       ELSE [status |-> 200, msg |-> "token", user |-> u]

\* POST /api/auth/login: a 200 carries a token whose payload is {userId}.
Login(login, password) ==
  LET r == LoginResponse(accounts, login, password) IN
  /\ resp' = Response("login", r.user, <<login, password>>, r.status,
                      IF r.status = 200 THEN <<"userId", r.user>> ELSE r.msg)
  /\ pre' = [accounts |-> accounts, playlists |-> playlists]
  /\ UNCHANGED <<catalogVars, otherVars, subVars, followVars, folderVars, playlistVars, streak>>

\* User.findByIdAndUpdate(u, {$push: {'playlists.created': p}})
PushCreated(u, p) ==
  [a \in DOMAIN accounts |->
     IF a = u THEN [accounts[a] EXCEPT !.created = Append(@, p)] ELSE accounts[a]]

\* User.findByIdAndUpdate(u, {$pull: {'playlists.created': p}})
PullCreated(u, p) ==
  [a \in DOMAIN accounts |->
     IF a = u THEN [accounts[a] EXCEPT !.created = SelectSeq(@, LAMBDA q : q # p)]
     ELSE accounts[a]]

\* isPublic === 'false' ? false : true
ParsePublic(field) == field # "false"

\* POST /api/playlists
CreatePlaylist(u, name, isPublic) ==
  /\ IF name = NoName
       THEN /\ resp' = Response("createPlaylist", u, name, 400, "Playlist name is required")
            /\ UNCHANGED playlistVars
       ELSE /\ nextPlaylist <= MaxPlaylists
            /\ playlists' = playlists @@ (nextPlaylist :>
                 NewPlaylist(name, u, FALSE, "user", ParsePublic(isPublic)))
            /\ accounts' = PushCreated(u, nextPlaylist)
            /\ nextPlaylist' = nextPlaylist + 1
            /\ resp' = Response("createPlaylist", u, name, 201, "created")
  /\ pre' = playlists
  /\ UNCHANGED <<catalogVars, otherVars, subVars, followVars, folderVars, streak>>

\* PATCH /api/playlists/:id.  A field the body does not carry is NoName
\* (name) or "undefined" (isPublic).
UpdatePlaylist(u, p, name, isPublic) ==
  /\ IF p \notin DOMAIN playlists
       THEN /\ resp' = Response("updatePlaylist", u, p, 404, "Playlist not found")
            /\ UNCHANGED playlists
       ELSE IF playlists[p].owner # u
         THEN /\ resp' = Response("updatePlaylist", u, p, 403,
                                  "Access denied: You do not own this playlist")
              /\ UNCHANGED playlists
         ELSE /\ playlists' = [playlists EXCEPT
                   ![p].name = IF name # NoName THEN name ELSE @,
                   ![p].isPublic = IF isPublic # "undefined" THEN ParsePublic(isPublic) ELSE @]
              /\ resp' = Response("updatePlaylist", u, p, 200, "updated")
  /\ pre' = playlists
  /\ UNCHANGED <<catalogVars, otherVars, accounts, nextPlaylist, subVars, followVars, folderVars, streak>>

\* DELETE /api/playlists/:id
DeletePlaylist(u, p) ==
  /\ IF p \notin DOMAIN playlists
       THEN /\ resp' = Response("deletePlaylist", u, p, 404, "Playlist not found")
            /\ UNCHANGED <<playlists, accounts>>
       ELSE IF playlists[p].owner # u \/ playlists[p].type = "system"
         THEN /\ resp' = Response("deletePlaylist", u, p, 403,
                   IF playlists[p].type = "system"
                     THEN "System playlists cannot be deleted"
                     ELSE "Access denied: You do not own this playlist")
              /\ UNCHANGED <<playlists, accounts>>
         ELSE /\ accounts' = PullCreated(u, p)
              /\ playlists' = [q \in DOMAIN playlists \ {p} |-> playlists[q]]
              /\ resp' = Response("deletePlaylist", u, p, 200, "Playlist deleted successfully")
  /\ pre' = playlists
  /\ UNCHANGED <<catalogVars, otherVars, nextPlaylist, subVars, followVars, folderVars, streak>>

\* The playlist routes sit behind auth: their callers are registered users.
NextPlaylist ==
  \/ \E username \in Usernames, email \in Emails, password \in Passwords,
        complete \in BOOLEAN : Register(username, email, password, complete)
  \/ \E u \in DOMAIN accounts, name \in PlaylistNames \cup {NoName},
        isPublic \in {"true", "false"} : CreatePlaylist(u, name, isPublic)
  \/ \E u \in DOMAIN accounts, p \in PlaylistIds, name \in {"Mix", NoName},
        isPublic \in {"false", "undefined"} : UpdatePlaylist(u, p, name, isPublic)
  \/ \E u \in DOMAIN accounts, p \in PlaylistIds : DeletePlaylist(u, p)

SpecPlaylist == InitSub /\ [][NextPlaylist]_vars

\* Mutant: the unfollow branch leaves the counter as it was.
FollowerCountAfterUnfollow_Kept(n) == n

\* Math.max(0, playlist.stats.followerCount - 1)
FollowerCountAfterUnfollow(n) == IF n - 1 > 0 THEN n - 1 ELSE 0

\* POST /api/playlists/:id/follow: the toggle.
FollowPlaylist(u, p) ==
  /\ IF p \notin DOMAIN playlists
       THEN /\ resp' = Response("followPlaylist", u, p, 404, "Playlist not found")
            /\ UNCHANGED playlists
       ELSE IF ~playlists[p].isPublic /\ IdToString(playlists[p].owner) # IdToString(u)
         THEN /\ resp' = Response("followPlaylist", u, p, 403, "This playlist is private")
              /\ UNCHANGED playlists
         ELSE IF Includes(playlists[p].followers, IdToString(u))
           THEN /\ playlists' = [playlists EXCEPT
                     ![p].followers = FilterOut(@, IdToString(u)),
                     ![p].followerCount = FollowerCountAfterUnfollow(@)]
                /\ resp' = Response("followPlaylist", u, p, 200, "Playlist unfollowed")
           ELSE /\ playlists' = [playlists EXCEPT
                     ![p].followers = Append(@, u),
                     ![p].followerCount = @ + 1]
                /\ resp' = Response("followPlaylist", u, p, 200, "Playlist followed")
  /\ pre' = playlists
  /\ UNCHANGED <<catalogVars, otherVars, accounts, nextPlaylist, subVars, followVars, folderVars, streak>>

\* Registered users create public and private playlists and toggle
\* following them, one request at a time.
NextPlaylistFollow ==
  \/ \E who \in {<<Lower("alice"), Lower("alice@x")>>, <<Lower("bob"), Lower("bob@x")>>} :
        Register(who[1], who[2], "pw1", TRUE)
  \/ \E u \in DOMAIN accounts, isPublic \in {"true", "false"} :
        CreatePlaylist(u, "Mix", isPublic)
  \/ \E u \in DOMAIN accounts, p \in PlaylistIds : FollowPlaylist(u, p)

SpecPlaylistFollow == InitSub /\ [][NextPlaylistFollow]_vars

LoginInputs == Usernames \cup Emails

NextAuth ==
  \/ \E username \in Usernames, email \in Emails, password \in Passwords,
        complete \in BOOLEAN : Register(username, email, password, complete)
  \/ \E login \in LoginInputs, password \in Passwords \cup {NoPassword} :
        Login(login, password)

SpecAuth == InitSub /\ [][NextAuth]_vars

\* ------------------------------------------------------------------------
\* Tokens and the auth middleware
\* ------------------------------------------------------------------------

\* The development user of setupDevEnvironment: stored with its password in
\* plain text on the new document, which the pre-save hook hashes once.
DevUsername == Lower("devuser")
DevEmail == Lower("dev@example.com")
DevPassword == "development123"

SetupDev ==
  /\ \A a \in DOMAIN accounts : accounts[a].email # DevEmail
  /\ \E u \in Users \ DOMAIN accounts :
       accounts' = accounts @@ (u :>
         [username |-> DevUsername, email |-> DevEmail, password |-> Hash(DevPassword),
          liked |-> NoPlaylist, created |-> <<>>])
  /\ resp' = Response("setupDev", Null, Null, 0, "")
  /\ pre' = [accounts |-> accounts, playlists |-> playlists]
  /\ UNCHANGED <<catalogVars, otherVars, subVars, followVars, folderVars, playlists,
                 nextPlaylist, streak>>

\* A field the token's payload does not carry.
UndefinedUser == "undefined"

\* auth: req.user = jwt.verify(token, secret), the payload as it was signed;
\* req.user.id as the handlers read it.
ReqUserId(token) == IF token[1] = "id" THEN token[2] ELSE UndefinedUser

\* POST /api/playlists {name, isPublic} sent with the token the client has
\* just been given by register or login.  An owner that is undefined fails
\* the schema (owner required) and the catch answers 500.
CreatePlaylistWithToken(name, isPublic) ==
  LET token == resp.msg
      u == ReqUserId(token)
  IN
  /\ resp.op \in {"register", "login"}
  /\ resp.status \in {200, 201}
  /\ IF name = NoName
       THEN /\ resp' = Response("tokenCreatePlaylist", u, name, 400, "Playlist name is required")
            /\ UNCHANGED playlistVars
       ELSE IF u = UndefinedUser
         THEN /\ resp' = Response("tokenCreatePlaylist", u, name, 500, "Server error")
              /\ UNCHANGED playlistVars
         ELSE /\ nextPlaylist <= MaxPlaylists
              /\ playlists' = playlists @@ (nextPlaylist :>
                   NewPlaylist(name, u, FALSE, "user", ParsePublic(isPublic)))
              /\ accounts' = PushCreated(u, nextPlaylist)
              /\ nextPlaylist' = nextPlaylist + 1
              /\ resp' = Response("tokenCreatePlaylist", u, name, 201, "created")
  /\ pre' = [token |-> token, issuedBy |-> resp.op, playlists |-> playlists]
  /\ UNCHANGED <<catalogVars, otherVars, subVars, followVars, folderVars, streak>>

NextToken ==
  \/ SetupDev
  \/ \E who \in {<<Lower("alice"), Lower("alice@x")>>, <<Lower("bob"), Lower("bob@x")>>} :
        Register(who[1], who[2], "pw1", TRUE)
  \/ \E login \in {DevUsername, DevEmail, Lower("alice")}, password \in {"pw1", DevPassword} :
        Login(login, password)
  \/ \E name \in {"Mix", NoName}, isPublic \in {"true", "false"} :
        CreatePlaylistWithToken(name, isPublic)

SpecToken == InitSub /\ [][NextToken]_vars

\* ------------------------------------------------------------------------
\* Tracks of a playlist (routes/playlists.js)
\* ------------------------------------------------------------------------

\* Track.findById(trackId)
TrackFound(trackId) == CastId(trackId) \in DOMAIN catalog

\* track.duration || 0
DurationOf(trackId) == catalog[CastId(trackId)].duration

\* playlist.tracks.some(t => t.track.toString() === trackId)
TrackInList(list, trackId) == \E i \in 1..Len(list) : IdToString(list[i]) = trackId

\* playlist.tracks.filter(t => t.track.toString() !== trackId)
WithoutTrack(list, trackId) == SelectSeq(list, LAMBDA t : IdToString(t) # trackId)

\* POST /api/playlists/:id/tracks
AddTrack(u, p, trackId) ==
  /\ IF p \notin DOMAIN playlists
       THEN /\ resp' = Response("addTrack", u, <<p, trackId>>, 404, "Playlist not found")
            /\ UNCHANGED playlists
       ELSE IF playlists[p].owner # u
         THEN /\ resp' = Response("addTrack", u, <<p, trackId>>, 403,
                                  "Access denied: You do not own this playlist")
              /\ UNCHANGED playlists
       ELSE IF ~TrackFound(trackId)
         THEN /\ resp' = Response("addTrack", u, <<p, trackId>>, 404, "Track not found")
              /\ UNCHANGED playlists
       ELSE IF TrackInList(playlists[p].tracks, trackId)
         THEN /\ resp' = Response("addTrack", u, <<p, trackId>>, 400,
                                  "Track already in playlist")
              /\ UNCHANGED playlists
         ELSE /\ Len(playlists[p].tracks) < MaxTracks
              /\ playlists[p].totalDuration + DurationOf(trackId) <= MaxDuration
              /\ playlists' = [playlists EXCEPT
                   ![p].tracks = Append(@, CastId(trackId)),
                   ![p].totalDuration = @ + DurationOf(trackId)]
              /\ resp' = Response("addTrack", u, <<p, trackId>>, 200,
                                  "Track added to playlist")
  /\ pre' = playlists
  /\ UNCHANGED <<catalogVars, otherVars, accounts, nextPlaylist, subVars, followVars, folderVars, streak>>

\* DELETE /api/playlists/:id/tracks/:trackId
RemoveTrack(u, p, trackId) ==
  /\ IF p \notin DOMAIN playlists
       THEN /\ resp' = Response("removeTrack", u, <<p, trackId>>, 404, "Playlist not found")
            /\ UNCHANGED playlists
       ELSE IF playlists[p].owner # u
         THEN /\ resp' = Response("removeTrack", u, <<p, trackId>>, 403,
                                  "Access denied: You do not own this playlist")
              /\ UNCHANGED playlists
       ELSE IF ~TrackInList(playlists[p].tracks, trackId)
         THEN /\ resp' = Response("removeTrack", u, <<p, trackId>>, 404,
                                  "Track not found in playlist")
              /\ UNCHANGED playlists
         ELSE /\ playlists' = [playlists EXCEPT
                   ![p].tracks = WithoutTrack(@, trackId),
                   ![p].totalDuration =
                      IF TrackFound(trackId) THEN @ - DurationOf(trackId) ELSE @]
              /\ resp' = Response("removeTrack", u, <<p, trackId>>, 200,
                                  "Track removed from playlist")
  /\ pre' = playlists
  /\ UNCHANGED <<catalogVars, otherVars, accounts, nextPlaylist, subVars, followVars, folderVars, streak>>

TrackIdInputs == IdStrings(TrackIds \cup {MissingTrack})

NextTrack ==
  \/ \E username \in Usernames, email \in {Lower("alice@x"), Lower("bob@x")} :
        Register(username, email, "pw1", TRUE)
  \/ \E u \in DOMAIN accounts, p \in PlaylistIds, trackId \in TrackIdInputs :
        AddTrack(u, p, trackId)
  \/ \E u \in DOMAIN accounts, p \in PlaylistIds, trackId \in TrackIdInputs :
        RemoveTrack(u, p, trackId)

SpecTrack == InitSub /\ [][NextTrack]_vars

\* ------------------------------------------------------------------------
\* Playlists in folders (routes/playlist-folders.js)
\* ------------------------------------------------------------------------


\* Playlist.find({_id: {$in: [p]}, owner: u}) returns one document.
OwnsPlaylist(u, p) == p \in DOMAIN playlists /\ playlists[p].owner = u

\* [...new Set([...folder.playlists, ...playlistIds])]: the stored entries are
\* ObjectId objects and the new ones strings, so the Set drops nothing.
WithPlaylist(listed, p) == Append(listed, p)

\* POST /api/playlist-folders/:id/playlists with playlistIds = [p]
AddPlaylistsToFolder(u, folderId, p) ==
  LET f == CastId(folderId) IN
  /\ IF p = NoPlaylist
       THEN /\ resp' = Response("addToFolder", u, <<folderId, p>>, 400,
                                "Playlist IDs are required")
            /\ UNCHANGED <<folders, playlists>>
       ELSE IF ~FolderExists(f)
         THEN /\ resp' = Response("addToFolder", u, <<folderId, p>>, 404, "Folder not found")
              /\ UNCHANGED <<folders, playlists>>
       ELSE IF folders[f].owner # u
         THEN /\ resp' = Response("addToFolder", u, <<folderId, p>>, 403,
                                  "Not authorized to edit this folder")
              /\ UNCHANGED <<folders, playlists>>
       ELSE IF ~OwnsPlaylist(u, p)
         THEN /\ resp' = Response("addToFolder", u, <<folderId, p>>, 400,
                                  "Some playlists not found or not owned by you")
              /\ UNCHANGED <<folders, playlists>>
         ELSE /\ Len(folders[f].playlists) < MaxListed
              /\ folders' = [folders EXCEPT ![f].playlists = WithPlaylist(@, p)]
              /\ playlists' = [playlists EXCEPT ![p].folder = f]
              /\ resp' = Response("addToFolder", u, <<folderId, p>>, 200, "folder")
  /\ pre' = [folders |-> folders, playlists |-> playlists]
  /\ UNCHANGED <<catalogVars, otherVars, subVars, followVars, nextFolder, userFolders, accounts,
                 nextPlaylist, streak>>

NextLibrary ==
  \/ \E who \in {<<Lower("alice"), Lower("alice@x")>>, <<Lower("bob"), Lower("bob@x")>>} :
        Register(who[1], who[2], "pw1", TRUE)
  \/ \E u \in DOMAIN accounts, parentFolder \in LowerFolderStrings \cup {NullField} :
        CreateFolder(u, TRUE, parentFolder)
  \/ \E u \in DOMAIN accounts, folderId \in LowerFolderStrings,
        p \in PlaylistIds \cup {NoPlaylist} : AddPlaylistsToFolder(u, folderId, p)
  \/ \E u \in DOMAIN accounts, folderId \in LowerFolderStrings,
        action \in {"move", "delete_contents"} : DeleteFolder(u, folderId, action)
  \/ \E u \in DOMAIN accounts, p \in PlaylistIds : DeletePlaylist(u, p)

SpecLibrary == InitSub /\ [][NextLibrary]_vars

\* ------------------------------------------------------------------------
\* POST /api/playlists/batch-update
\* ------------------------------------------------------------------------

\* The ids a list of id strings names.
NamedIds(ids) == {CastId(ids[i]) : i \in 1..Len(ids)}

\* Mutant: the lookup does not ask for the owner.
OwnedAmong_AnyOwner(u, ids) ==
  {p \in DOMAIN playlists : p \in NamedIds(ids)}

\* Playlist.find({_id: {$in: playlistIds}, owner: req.user.id})
OwnedAmong(u, ids) ==
  {p \in DOMAIN playlists : p \in NamedIds(ids) /\ playlists[p].owner = u}

\* updates.color: absent, a hex colour, or some other text.
NoColor == "none"
Colors == {NoColor, "#abc", "red"}
HexColor(color) == color = "#abc"

\* The ids of set S added, in ascending order, to the end of list.
RECURSIVE AppendAll(_, _)
AppendAll(list, S) ==
  IF S = {} THEN list
  ELSE LET p == CHOOSE x \in S : \A y \in S : x <= y IN
       AppendAll(Append(list, p), S \ {p})

\* {$addToSet: {playlists: {$each: playlistIds}}}
AddToSet(listed, ids) ==
  AppendAll(listed, NamedIds(ids) \ {listed[i] : i \in 1..Len(listed)})

\* {$pull: {playlists: {$in: playlistIds}}}
PullIn(listed, ids) == SelectSeq(listed, LAMBDA p : p \notin NamedIds(ids))

\* The folder documents after the folder part of a batch update: the ids are
\* added to the target folder, then pulled from every folder that one of the
\* found playlists was in.
BatchFolders(found, ids, target) ==
  LET added == [folders EXCEPT ![target].playlists = AddToSet(@, ids)]
      current == {playlists[p].folder : p \in found} \ {NoFolder}
  IN [f \in DOMAIN folders |->
        IF f \in current THEN [added[f] EXCEPT !.playlists = PullIn(@, ids)]
        ELSE added[f]]

\* Playlist.updateMany({_id: {$in: playlistIds}}, {$set: allowedUpdates})
BatchPlaylists(ids, isPublic, folder) ==
  [p \in DOMAIN playlists |->
     IF p \notin NamedIds(ids) THEN playlists[p]
     ELSE [playlists[p] EXCEPT
             !.isPublic = IF isPublic # "undefined" THEN isPublic = "true" ELSE @,
             !.folder = IF folder = Undefined THEN @
                        ELSE IF folder = NullField THEN NoFolder
                        ELSE CastId(folder)]]

\* The response of a batch update that stores nothing, or <<0, "ok">>.
BatchUpdateCheck(u, ids, color, isPublic, folder) ==
  IF Len(ids) = 0 THEN <<400, "Playlist IDs are required">>
  ELSE IF color = NoColor /\ isPublic = "undefined" /\ folder = Undefined
    THEN <<400, "Updates are required">>
  ELSE IF Cardinality(OwnedAmong(u, ids)) # Len(ids)
    THEN <<403, "You do not own all specified playlists">>
  ELSE IF color # NoColor /\ ~HexColor(color) THEN <<400, "Invalid color format">>
  ELSE IF Truthy(folder)
          /\ (~FolderExists(CastId(folder)) \/ folders[CastId(folder)].owner # u)
    THEN <<404, "Folder not found or not owned by you">>
  ELSE <<0, "ok">>

\* POST /api/playlists/batch-update with body {playlistIds: ids, updates:
\* {color, isPublic, folder}}.  The colour of a playlist is read by no
\* handler of the model and is not stored.
BatchUpdate(u, ids, color, isPublic, folder) ==
  LET r == BatchUpdateCheck(u, ids, color, isPublic, folder) IN
  /\ IF r[1] # 0
       THEN /\ resp' = Response("batchUpdate", u, <<ids, color, isPublic, folder>>, r[1], r[2])
            /\ UNCHANGED <<folders, playlists>>
       ELSE /\ folders' = IF Truthy(folder)
                            THEN BatchFolders(OwnedAmong(u, ids), ids, CastId(folder))
                            ELSE folders
            /\ playlists' = BatchPlaylists(ids, isPublic, folder)
            /\ resp' = Response("batchUpdate", u, <<ids, color, isPublic, folder>>, 200,
                                "Playlists updated successfully")
  /\ pre' = [folders |-> folders, playlists |-> playlists]
  /\ UNCHANGED <<catalogVars, otherVars, subVars, followVars, nextFolder, userFolders, accounts,
                 nextPlaylist, streak>>

\* The lists of playlist ids a body may carry: no id, one id, two different
\* ids, or the first id twice.
PlaylistStrings == {LowerHex(p) : p \in PlaylistIds}
PlaylistIdLists ==
  {<<>>, <<LowerHex(1), LowerHex(1)>>}
    \cup {<<a>> : a \in PlaylistStrings}
    \cup {<<LowerHex(a), LowerHex(b)>> : <<a, b>> \in {x \in PlaylistIds \X PlaylistIds : x[1] < x[2]}}

\* The update bodies tried: empty, a bad colour, a good colour with a
\* visibility change and a move into the first folder, and a move out of
\* every folder.
BatchBodies ==
  {<<NoColor, "undefined", Undefined>>, <<"red", "undefined", Undefined>>,
   <<"#abc", "false", LowerHex(1)>>, <<NoColor, "undefined", NullField>>}

\* Two users register; one of them creates a playlist, one of them creates a
\* folder, and both send batch updates.
NextBatch ==
  \/ \E who \in {<<Lower("alice"), Lower("alice@x")>>, <<Lower("bob"), Lower("bob@x")>>} :
        Register(who[1], who[2], "pw1", TRUE)
  \/ \E u \in DOMAIN accounts :
        /\ \A a \in DOMAIN accounts : accounts[a].created = <<>>
        /\ CreatePlaylist(u, "Mix", "true")
  \/ \E u \in DOMAIN accounts :
        DOMAIN folders = {} /\ CreateFolder(u, TRUE, NullField)
  \/ \E u \in DOMAIN accounts, ids \in PlaylistIdLists, b \in BatchBodies :
        BatchUpdate(u, ids, b[1], b[2], b[3])

SpecBatch == InitSub /\ [][NextBatch]_vars

\* ========================================================================
\* The catalogue: routes/albums.js and routes/tracks.js
\* ========================================================================

\* POST /api/albums, behind auth and isAdmin.  The document the handler builds
\* has no distributor, and the Album schema requires distributor.name: save()
\* rejects it and the catch answers 500.
CreateAlbum(u, hasTitle, artistId) ==
  /\ resp' = IF ~IsAdmin(u)
               THEN Response("createAlbum", u, artistId, 403,
                             "Access denied. Admin privileges required.")
             ELSE IF ~hasTitle \/ artistId = Null
               THEN Response("createAlbum", u, artistId, 400,
                             "Title and artist are required")
             ELSE IF artistId \notin ArtistIds
               THEN Response("createAlbum", u, artistId, 404, "Artist not found")
             ELSE Response("createAlbum", u, artistId, 500, "Server error")
  /\ pre' = albums
  /\ UNCHANGED <<catalogVars, otherVars, subVars, followVars, folderVars, playlistVars, streak>>

\* POST /api/tracks (upload).  The handler reads title, artist and genre of
\* the body; bodyAlbum is the album the body names, which the stored document
\* keeps only as history.
UploadTrack(u, hasTitle, artist, bodyAlbum, hasFile) ==
  /\ IF ~hasTitle \/ artist = Null
       THEN /\ resp' = Response("uploadTrack", u, <<artist, bodyAlbum>>, 400,
                                "Please provide a title and artist")
            /\ UNCHANGED <<catalog, nextTrack, trackCount>>
       ELSE IF artist \notin ArtistIds
         THEN /\ resp' = Response("uploadTrack", u, <<artist, bodyAlbum>>, 404,
                                  "Artist not found")
              /\ UNCHANGED <<catalog, nextTrack, trackCount>>
       ELSE IF ~hasFile
         THEN /\ resp' = Response("uploadTrack", u, <<artist, bodyAlbum>>, 400,
                                  "Please upload an audio file")
              /\ UNCHANGED <<catalog, nextTrack, trackCount>>
         ELSE /\ nextTrack <= MaxCatalog
              /\ catalog' = catalog @@ (nextTrack :>
                   [artist |-> artist, album |-> NoAlbum, trackNumber |-> NoNumber,
                    bodyAlbum |-> bodyAlbum, duration |-> DefaultDuration, plays |-> 0])
              /\ nextTrack' = nextTrack + 1
              /\ trackCount' = [trackCount EXCEPT ![artist] = @ + 1]
              /\ resp' = Response("uploadTrack", u, <<artist, bodyAlbum>>, 201, nextTrack)
  /\ pre' = catalog
  /\ UNCHANGED <<otherVars, albums, totalPlays, recentlyPlayed, playing>>
  /\ UNCHANGED <<subVars, followVars, folderVars, playlistVars, streak>>

\* .sort({trackNumber: 1}): ascending track number, a missing number first,
\* equal numbers in the order of the collection.
RECURSIVE SortByTrackNumber(_)
SortByTrackNumber(ts) ==
  IF ts = {} THEN <<>>
  ELSE LET first == CHOOSE t \in ts : \A o \in ts :
                      \/ catalog[t].trackNumber < catalog[o].trackNumber
                      \/ catalog[t].trackNumber = catalog[o].trackNumber /\ t <= o
       IN <<first>> \o SortByTrackNumber(ts \ {first})

\* Track.find({album: albumId})
TracksOfAlbum(albumId) == {t \in DOMAIN catalog : catalog[t].album = albumId}

\* GET /api/albums/:id; the response carries the ids of the tracks array.
GetAlbum(u, albumId) ==
  /\ resp' = IF albumId \notin DOMAIN albums
               THEN Response("getAlbum", u, albumId, 404, "Album not found")
               ELSE Response("getAlbum", u, albumId, 200,
                             SortByTrackNumber(TracksOfAlbum(albumId)))
  /\ pre' = catalog
  /\ UNCHANGED <<catalogVars, otherVars, subVars, followVars, folderVars, playlistVars, streak>>

NextCatalog ==
  \/ \E u \in Users, hasTitle \in BOOLEAN, artistId \in ArtistIds \cup {MissingArtist, Null} :
        CreateAlbum(u, hasTitle, artistId)
  \/ \E u \in Users, hasTitle \in BOOLEAN, artist \in ArtistIds \cup {MissingArtist, Null},
        bodyAlbum \in AlbumIds \cup {NoAlbum}, hasFile \in BOOLEAN :
        UploadTrack(u, hasTitle, artist, bodyAlbum, hasFile)
  \/ \E u \in Users, albumId \in AlbumIds \cup {MissingAlbum} : GetAlbum(u, albumId)

SpecCatalog == InitSub /\ [][NextCatalog]_vars

\* ------------------------------------------------------------------------
\* POST /api/tracks/:id/play.  The handler awaits the lookup, the save of the
\* track, and the two updates; requests of other clients run in between.
\* ------------------------------------------------------------------------

\* const track = await Track.findById(req.params.id)
PlayFind(r, u, trackId) ==
  /\ playing[r].step = "idle"
  /\ IF ~TrackFound(trackId)
       THEN /\ resp' = Response("play", u, trackId, 404, "Track not found")
            /\ UNCHANGED playing
       ELSE /\ playing' = [playing EXCEPT ![r] =
                 [step |-> "found", user |-> u, track |-> CastId(trackId),
                  plays |-> catalog[CastId(trackId)].plays]]
            /\ UNCHANGED resp
  /\ UNCHANGED <<otherVars, albums, catalog, nextTrack, trackCount, totalPlays, recentlyPlayed>>
  /\ UNCHANGED <<subVars, followVars, folderVars, playlistVars, pre, streak>>

\* track.plays += 1; await track.save(): the save writes the number the
\* handler computed from what it read ($set).
PlaySave(r) ==
  /\ playing[r].step = "found"
  /\ catalog' = [catalog EXCEPT ![playing[r].track].plays = playing[r].plays + 1]
  /\ playing' = [playing EXCEPT ![r].step = "saved"]
  /\ UNCHANGED <<otherVars, albums, nextTrack, trackCount, totalPlays, recentlyPlayed>>
  /\ UNCHANGED <<subVars, followVars, folderVars, playlistVars, resp, pre, streak>>

\* $push with $position 0 and $slice 50
PushRecent(list, t) == SubSeq(<<t>> \o list, 1,
                              IF Len(list) + 1 < RecentLimit THEN Len(list) + 1
                              ELSE RecentLimit)

\* Artist $inc totalPlays, User $push recentlyPlayed, and the response.
PlayFinish(r) ==
  LET t == playing[r].track
      a == catalog[t].artist
  IN
  /\ playing[r].step = "saved"
  /\ totalPlays[a] < MaxPlays
  /\ totalPlays' = [totalPlays EXCEPT ![a] = @ + 1]
  /\ recentlyPlayed' = [recentlyPlayed EXCEPT ![playing[r].user] = PushRecent(@, t)]
  /\ resp' = Response("play", playing[r].user, LowerHex(t), 200,
                      "Play recorded successfully")
  /\ playing' = [playing EXCEPT ![r] = Idle]
  /\ UNCHANGED <<otherVars, albums, catalog, nextTrack, trackCount>>
  /\ UNCHANGED <<subVars, followVars, folderVars, playlistVars, pre, streak>>

NextPlay ==
  \/ \E r \in Requests, u \in Users, trackId \in TrackIdInputs : PlayFind(r, u, trackId)
  \/ \E r \in Requests : PlaySave(r)
  \/ \E r \in Requests : PlayFinish(r)

SpecPlay == InitSub /\ [][NextPlay]_vars

\* ========================================================================
\* Last.fm (utils/lastfm.js) in the create-artist and track-search routes
\* ========================================================================

\* What the Last.fm request does: it answers with data, it answers without
\* the data asked for, or it fails (network error, error status).
LastfmOutcomes == {"data", "nodata", "fail"}

\* getArtistInfo: an answer without an artist makes response.data.artist.name
\* throw inside the try, so it ends in the same Error as a failed request.
ArtistInfoThrows(svc) == svc \in {"nodata", "fail"}

\* searchTracks: an answer with an empty match list maps to [].
SearchTracksThrows(svc) == svc = "fail"

ArtistNames == {"Solo", "Duo"}

\* The names of the Artist collection: the seeded artists and the created ones.
StoredArtistNames == {"A1", "A2"} \cup DOMAIN artistDocs

\* The catch around getArtistInfo in the route: the artist keeps its own bio.
ArtistBio(hasBio, svc) ==
  IF hasBio THEN "body"
  ELSE IF ArtistInfoThrows(svc) THEN "none" ELSE "lastfm"

\* The response of POST /api/artists (behind auth and isAdmin) and the
\* document it stores, if any.
CreateArtistResponse(u, name, hasBio, svc) ==
  IF ~IsAdmin(u)
    THEN [status |-> 403, msg |-> "Access denied. Admin privileges required.", store |-> FALSE]
  ELSE IF name \in StoredArtistNames
    THEN [status |-> 400, msg |-> "Artist already exists", store |-> FALSE]
  ELSE IF name = NoName
    THEN [status |-> 500, msg |-> "Server error", store |-> FALSE]
  ELSE [status |-> 201, msg |-> "created", store |-> TRUE]

\* POST /api/artists
CreateArtist(u, name, hasBio, svc) ==
  LET r == CreateArtistResponse(u, name, hasBio, svc) IN
  /\ artistDocs' = IF r.store
                     THEN artistDocs @@ (name :> [bio |-> ArtistBio(hasBio, svc)])
                     ELSE artistDocs
  /\ resp' = Response("createArtist", u, <<name, hasBio, svc>>, r.status, r.msg)
  /\ pre' = [artistDocs |-> artistDocs, catalog |-> catalog]
  /\ UNCHANGED <<catalogVars, inflight, subVars, followVars, folderVars, playlistVars, streak>>

\* A query string: absent, one that matches every title, one that matches none.
NoQuery == ""
Queries == {"all", "zzz"}

\* Track.find({title: {$regex: q, $options: 'i'}, ...}) on the collection ts;
\* a genre or artist filter of the request keeps only the tracks it selects.
LocalTracks(ts, q, filter) ==
  {t \in DOMAIN ts : q \in {NoQuery, "all"} /\ (filter = "none" \/ ts[t].artist = filter)}

\* Mutant: the error of the Last.fm search reaches the outer catch.
SearchAfterLastfmError_Rethrown == [status |-> 500, msg |-> "Server error"]

\* The catch around searchTracks: go on to the local results.
SearchAfterLastfmError == [status |-> 200, msg |-> "local"]

\* The response of GET /api/search/tracks on the collection ts.
SearchTracksResponse(ts, q, filter, svc) ==
  IF q = NoQuery /\ filter = "none"
    THEN [status |-> 400, msg |-> "At least one search parameter is required"]
  ELSE IF Cardinality(LocalTracks(ts, q, filter)) < FewResults /\ q # NoQuery
    THEN IF SearchTracksThrows(svc) THEN SearchAfterLastfmError
         ELSE [status |-> 200, msg |-> "local and external"]
  ELSE [status |-> 200, msg |-> "local"]

\* GET /api/search/tracks
SearchTracks(u, q, filter, svc) ==
  LET r == SearchTracksResponse(catalog, q, filter, svc) IN
  /\ resp' = Response("searchTracks", u, <<q, filter, svc>>, r.status, r.msg)
  /\ pre' = [artistDocs |-> artistDocs, catalog |-> catalog]
  /\ UNCHANGED <<catalogVars, otherVars, subVars, followVars, folderVars, playlistVars, streak>>

NextLastfm ==
  \/ \E u \in Users, name \in ArtistNames \cup {"A1", NoName}, hasBio \in BOOLEAN,
        svc \in LastfmOutcomes : CreateArtist(u, name, hasBio, svc)
  \/ \E u \in Users, q \in Queries \cup {NoQuery}, filter \in {"none", "a1"},
        svc \in LastfmOutcomes : SearchTracks(u, q, filter, svc)
  \/ \E artist \in ArtistIds : UploadTrack("u1", TRUE, artist, NoAlbum, TRUE)

SpecLastfm == InitSub /\ [][NextLastfm]_vars

\* ========================================================================
\* The subscription-tier routes and models/SubscriptionTier.js
\* ========================================================================

\* Artist.members: the users who manage each artist.
ArtistMembers == [a \in ArtistIds |-> IF a = "a1" THEN {"u1"} ELSE {"u2"}]

\* The manager of the artist of seeded tier t.
ArtistMembersOf(t) == CHOOSE u \in Users : u \in ArtistMembers[SeedTiers[t].artist]

NoPrice == -1     \* a body without a price
NoOrder == 0      \* a body without an order

\* Mutant: the count of active tiers always reads zero.
countArtistTiers_Zero(a) == 0

\* countDocuments({artist, active: true}), as the route and the pre-save hook
\* both ask it.
countArtistTiers(a) ==
  Cardinality({t \in DOMAIN tiers : tiers[t].artist = a /\ tiers[t].active})

\* The _id of the next tier document.
NewTierId == "t" \o ToString(Cardinality(DOMAIN tiers) + 1)

\* POST /api/subscription-tiers behind verifyArtistOwnership: the response to
\* a request that stores nothing, or <<0, "ok">>.  Comparisons with an absent
\* price are false; the schema then refuses the document (price required,
\* order within 1..3), as does the pre-save hook at the tier limit.
CreateTierCheck(u, a, price, order) ==
  IF a \notin ArtistIds THEN <<404, "Artist not found">>
  ELSE IF u \notin ArtistMembers[a] /\ ~IsAdmin(u)
    THEN <<403, "Not authorized to manage this artist">>
  ELSE IF price # NoPrice /\ (price < MinPrice \/ price > MaxPrice)
    THEN <<400, "Price must be between $0.99 and $99.99">>
  ELSE IF countArtistTiers(a) >= TierLimit
    THEN <<400, "Artist already has the maximum number of tiers (3)">>
  ELSE LET ord == IF order # NoOrder THEN order ELSE countArtistTiers(a) + 1 IN
       IF price = NoPrice \/ ord < 1 \/ ord > 3 THEN <<500, "Server error">>
       ELSE IF countArtistTiers(a) >= TierLimit THEN <<500, "Server error">>
       ELSE <<0, "ok">>

CreateTier(u, a, price, order) ==
  LET r == CreateTierCheck(u, a, price, order) IN
  /\ IF r[1] # 0
       THEN /\ resp' = Response("createTier", u, <<a, price, order>>, r[1], r[2])
            /\ UNCHANGED <<tiers, accepts, customTiers>>
       ELSE /\ Cardinality(DOMAIN tiers) < MaxTiers
            /\ tiers' = tiers @@ (NewTierId :> [artist |-> a, active |-> TRUE])
            /\ accepts' = [accepts EXCEPT ![a] = TRUE]
            /\ customTiers' = [customTiers EXCEPT ![a] = TRUE]
            /\ resp' = Response("createTier", u, <<a, price, order>>, 201, "created")
  /\ pre' = tiers
  /\ UNCHANGED <<now, userSubs, embeddedSubs, subscriberCount>>
  /\ UNCHANGED <<catalogVars, otherVars, followVars, folderVars, playlistVars, streak>>

\* DELETE /api/subscription-tiers/:id (soft delete)
DeleteTier(u, t) ==
  /\ IF t \notin DOMAIN tiers
       THEN /\ resp' = Response("deleteTier", u, t, 404, "Subscription tier not found")
            /\ UNCHANGED <<tiers, customTiers>>
       ELSE IF u \notin ArtistMembers[tiers[t].artist] /\ ~IsAdmin(u)
         THEN /\ resp' = Response("deleteTier", u, t, 403, "Not authorized to delete this tier")
              /\ UNCHANGED <<tiers, customTiers>>
         ELSE /\ tiers' = [tiers EXCEPT ![t].active = FALSE]
              /\ customTiers' =
                   IF \A x \in DOMAIN tiers :
                        x # t /\ tiers[x].artist = tiers[t].artist => ~tiers[x].active
                     THEN [customTiers EXCEPT ![tiers[t].artist] = FALSE]
                     ELSE customTiers
              /\ resp' = Response("deleteTier", u, t, 200, "Subscription tier deleted")
  /\ pre' = tiers
  /\ UNCHANGED <<now, accepts, userSubs, embeddedSubs, subscriberCount>>
  /\ UNCHANGED <<catalogVars, otherVars, followVars, folderVars, playlistVars, streak>>

TierIdInputs == {"t" \o ToString(n) : n \in 1..MaxTiers} \cup {MissingTier}

NextTier ==
  \/ \E u \in Users, a \in ArtistIds \cup {MissingArtist},
        price \in {50, 500, NoPrice}, order \in {NoOrder, 2, 4} :
        CreateTier(u, a, price, order)
  \/ \E u \in Users, t \in TierIdInputs : DeleteTier(u, t)

SpecTier == InitSub /\ [][NextTier]_vars

\* ------------------------------------------------------------------------
\* POST /api/subscription-tiers as its awaits split it: the route counts the
\* artist's active tiers, newTier.save() validates and runs the pre-save
\* hook, which counts them again, and only then is the document inserted.
\* Other requests may run between these steps.
\* ------------------------------------------------------------------------

\* verifyArtistOwnership, the price test and the route's countDocuments
CreateTierCount(r, u, a, price, order) ==
  LET chk ==
        IF a \notin ArtistIds THEN <<404, "Artist not found">>
        ELSE IF u \notin ArtistMembers[a] /\ ~IsAdmin(u)
          THEN <<403, "Not authorized to manage this artist">>
        ELSE IF price # NoPrice /\ (price < MinPrice \/ price > MaxPrice)
          THEN <<400, "Price must be between $0.99 and $99.99">>
        ELSE IF countArtistTiers(a) >= TierLimit
          THEN <<400, "Artist already has the maximum number of tiers (3)">>
        ELSE <<0, "ok">>
  IN
  /\ inflight[r].step = "idle"
  /\ IF chk[1] # 0
       THEN /\ resp' = Response("createTier", u, <<a, price, order>>, chk[1], chk[2])
            /\ UNCHANGED inflight
       ELSE /\ inflight' = [inflight EXCEPT ![r] =
                 [step |-> "tierHook", user |-> u, artist |-> a, price |-> price,
                  bodyOrder |-> order,
                  order |-> IF order # NoOrder THEN order ELSE countArtistTiers(a) + 1]]
            /\ UNCHANGED resp
  /\ pre' = tiers
  /\ UNCHANGED <<catalogVars, artistDocs, subVars, followVars, folderVars, playlistVars, streak>>

\* newTier.save() up to the insert: schema validation (price required, order
\* within 1..3), then the pre-save hook's count.
CreateTierHook(r) ==
  LET q == inflight[r] IN
  /\ q.step = "tierHook"
  /\ IF q.price = NoPrice \/ q.order < 1 \/ q.order > 3
        \/ countArtistTiers(q.artist) >= TierLimit
       THEN /\ resp' = Response("createTier", q.user, <<q.artist, q.price, q.bodyOrder>>,
                                500, "Server error")
            /\ inflight' = [inflight EXCEPT ![r] = Idle]
       ELSE /\ inflight' = [inflight EXCEPT ![r].step = "tierInsert"]
            /\ UNCHANGED resp
  /\ UNCHANGED <<catalogVars, artistDocs, subVars, followVars, folderVars, playlistVars,
                 pre, streak>>

\* The insert, Artist.findByIdAndUpdate and the response.
CreateTierInsert(r) ==
  LET q == inflight[r] IN
  /\ q.step = "tierInsert"
  /\ Cardinality(DOMAIN tiers) < MaxTiers
  /\ tiers' = tiers @@ (NewTierId :> [artist |-> q.artist, active |-> TRUE])
  /\ accepts' = [accepts EXCEPT ![q.artist] = TRUE]
  /\ customTiers' = [customTiers EXCEPT ![q.artist] = TRUE]
  /\ resp' = Response("createTier", q.user, <<q.artist, q.price, q.bodyOrder>>, 201, "created")
  /\ inflight' = [inflight EXCEPT ![r] = Idle]
  /\ UNCHANGED <<now, userSubs, embeddedSubs, subscriberCount>>
  /\ UNCHANGED <<catalogVars, artistDocs, followVars, folderVars, playlistVars, pre, streak>>

\* Overlapping create-tier requests for artist a1, and deletions of its
\* first tier.
NextTierRace ==
  \/ \E r \in Requests, u \in Users, price \in {500, NoPrice} :
        CreateTierCount(r, u, "a1", price, NoOrder)
  \/ \E r \in Requests : CreateTierHook(r)
  \/ \E r \in Requests : CreateTierInsert(r)
  \/ DeleteTier("u1", "t1")

SpecTierRace == InitSub /\ [][NextTierRace]_vars

\* Subscriptions over the tiers of two artists: the manager of artist a2
\* creates a tier (which makes a2 accept subscriptions), managers retire
\* tiers, and users subscribe, change tier and cancel.
NextSubTier ==
  \/ \E u \in Users, a \in ArtistIds, t \in {"t1", "t2", "t4", MissingTier} :
        CreateSubscription(u, a, t)
  \/ \E id \in 1..2 : CancelSubscription("u1", id)
  \/ \E u \in Users, id \in 1..2, t \in {"t1", "t2", "t4", Null} :
        ChangeTier(u, id, t)
  \/ /\ ~accepts["a2"]
     /\ CreateTier("u2", "a2", 500, NoOrder)
  \/ DeleteTier(ArtistMembersOf("t2"), "t2")

SpecSubTier == InitSub /\ [][NextSubTier]_vars

\* ========================================================================
\* Claims about subscriptions and gated content
\* ========================================================================

\* The number of subscription records of artist a, over both stores.
RecordsFor(subs, emb, a) ==
  Cardinality({i \in 1..Len(subs) : subs[i].artist = a})
  + Cardinality({<<u, i>> \in Users \X (1..(MaxEmbedded + 1)) :
                   i <= Len(emb[u]) /\ emb[u][i].artist = a})

\* C1: every step persists a new subscription record of an artist exactly
\* when it raises that artist's subscriber count by one: never a record
\* without the increment, never the increment without a record.
C1_RecordIffCount ==
  [][\A a \in ArtistIds :
       (RecordsFor(userSubs', embeddedSubs', a) = RecordsFor(userSubs, embeddedSubs, a) + 1)
         <=> (subscriberCount'[a] = subscriberCount[a] + 1)]_vars

\* The subscriptions of user u to the artist of content c whose tier meets
\* the content's requirement (none required, or the very tier required).
MatchingSubs(u, c) ==
  {i \in 1..Len(userSubs) :
     /\ userSubs[i].user = u
     /\ userSubs[i].artist = Contents[c].artist
     /\ (Contents[c].minimumTierRequired = Null
           \/ userSubs[i].tier = Contents[c].minimumTierRequired)}

\* C2: a canceled subscription opens the artist's gated content at every
\* time up to and including currentPeriodEnd, and at no time after it.
C2_CanceledAccessUntilPeriodEnd ==
  [][\A u \in Users, c \in ContentIds :
       (GetContent(u, c) /\ ~Contents[c].isPublic) =>
         \A i \in MatchingSubs(u, c) :
           userSubs[i].status = "canceled" =>
             (resp'.status = 200 <=> now <= userSubs[i].currentPeriodEnd)]_vars

\* The gate predicate as the specification words it.
GatePredicate(u, c) ==
  \/ Contents[c].isPublic
  \/ Contents[c].minimumTierRequired = Null
  \/ \E i \in 1..Len(userSubs) :
       /\ userSubs[i].user = u
       /\ userSubs[i].artist = Contents[c].artist
       /\ userSubs[i].status \in {"active", "canceled"}
       /\ now <= userSubs[i].currentPeriodEnd
       /\ userSubs[i].tier = Contents[c].minimumTierRequired

\* C3: a request for a single item is granted exactly when the gate
\* predicate holds of the caller and the item.
C3_GrantedIffGate ==
  [][\A u \in Users, c \in ContentIds :
       GetContent(u, c) => (resp'.status = 200 <=> GatePredicate(u, c))]_vars

\* The active-or-paused subscriptions of user u to artist a.
ActiveOrPaused(subs, u, a) ==
  {i \in 1..Len(subs) :
     subs[i].user = u /\ subs[i].artist = a /\ subs[i].status \in {"active", "paused"}}

AlreadySubscribedMsg == "You already have an active subscription to this artist"

\* C4: a subscribe request made while the caller holds an active-or-paused
\* subscription to the artist is answered with a 4xx rejection (the
\* already-subscribed 400 when the tier asked for is valid) and stores no
\* record; and no (user, artist) pair ever has two such subscriptions.
C4_NoSecondSubscription ==
  /\ \A u \in Users, a \in ArtistIds :
       Cardinality(ActiveOrPaused(userSubs, u, a)) <= 1
  /\ (resp.op = "subscribe" /\ resp.target[1] \in ArtistIds
        /\ ActiveOrPaused(pre, resp.caller, resp.target[1]) # {}) =>
       LET a == resp.target[1]
           t == resp.target[2]
       IN
       /\ userSubs = pre
       /\ resp.status \in {400, 404}
       /\ (t \in TierIds /\ tiers[t].artist = a /\ tiers[t].active
             => resp.status = 400 /\ resp.msg = AlreadySubscribedMsg)

\* C4 witness: a subscribe was refused as already subscribed while the
\* caller's active subscription to that artist is in the store.
C4_Witness ==
  /\ resp.op = "subscribe"
  /\ resp.status = 400
  /\ resp.msg = AlreadySubscribedMsg
  /\ ActiveOrPaused(pre, resp.caller, resp.target[1]) # {}

\* C5: once a user's subscription to an artist is canceled (and none is
\* active or paused), a new subscribe request of that user for an active
\* tier of the artist succeeds and leaves an active subscription.
C5_ResubscribeAfterCancel ==
  [][\A u \in Users, a \in ArtistIds, t \in TierIds :
       ( /\ CreateSubscription(u, a, t)
         /\ tiers[t].artist = a /\ tiers[t].active
         /\ ActiveOrPaused(userSubs, u, a) = {}
         /\ \E i \in 1..Len(userSubs) :
              userSubs[i].user = u /\ userSubs[i].artist = a
                /\ userSubs[i].status = "canceled" ) =>
         /\ resp'.status = 201
         /\ ActiveOrPaused(userSubs', u, a) # {}]_vars

\* ========================================================================
\* Claims about following
\* ========================================================================

\* C8: when a caller's successful follow-artist request is followed by the
\* same caller's follow request for the same artist, with no request about
\* that artist in between, the second is answered with the 400 error and the
\* artist's follower counter stands exactly one above its value before the
\* first request.
C8_SecondFollowRejected ==
  streak.n = 2 =>
    /\ streak.second = 400
    /\ artistFollowers[streak.artist] = streak.base + 1

\* C8 witness: a follow-artist request has succeeded and been repeated, with
\* the artist already followed by somebody else before the first request.
C8_Witness ==
  /\ streak.n = 2
  /\ resp.op = "followArtist"
  /\ resp.status = 400
  /\ streak.base = 1
  /\ artistFollowers[streak.artist] = 2

\* The caller of the last request did not follow its target when it arrived.
UnfollowOfNotFollowed ==
  \/ /\ resp.op = "unfollowArtist"
     /\ \A i \in 1..Len(pre.following[resp.caller].artists) :
          pre.following[resp.caller].artists[i] # CastId(resp.target)
  \/ /\ resp.op = "unfollowUser"
     /\ \A i \in 1..Len(pre.following[resp.caller].users) :
          pre.following[resp.caller].users[i] # CastId(resp.target)

C10_UnfollowNotFollowedChangesNothing ==
  UnfollowOfNotFollowed =>
    /\ following = pre.following
    /\ userFollowers = pre.userFollowers
    /\ artistFollowers = pre.artistFollowers

\* C10 witness: a caller unfollowed an artist they were not following while
\* somebody else was following that artist.
C10_Witness ==
  /\ UnfollowOfNotFollowed
  /\ resp.op = "unfollowArtist"
  /\ CastId(resp.target) \in ArtistIds
  /\ artistFollowers[CastId(resp.target)] > 0

\* ========================================================================
\* Claims about playlist folders
\* ========================================================================

\* Folder g is reached from folder f by following parent links, at most
\* `fuel` of them.
RECURSIVE ReachesUp(_, _, _, _)
ReachesUp(fs, f, g, fuel) ==
  /\ f \in DOMAIN fs
  /\ \/ fs[f].parentFolder = g
     \/ /\ fuel > 0
        /\ ReachesUp(fs, fs[f].parentFolder, g, fuel - 1)

\* C6: no folder is its own ancestor; and a parent-change request naming as
\* the new parent the folder itself or one of its descendants is rejected and
\* leaves every parent link as it was.
C6_FoldersCycleFree ==
  /\ \A f \in DOMAIN folders : ~ReachesUp(folders, f, f, MaxFolders)
  /\ (/\ resp.op = "updateFolder"
      /\ Truthy(resp.target[2])
      /\ LET f == CastId(resp.target[1])
             p == CastId(resp.target[2])
         IN f \in DOMAIN pre /\ (p = f \/ ReachesUp(pre, p, f, MaxFolders)))
       => (resp.status >= 400 /\ folders = pre)

\* ========================================================================
\* Claims about playlists
\* ========================================================================

\* The Liked Songs system playlists user u owns.
LikedSongsOf(u) ==
  {p \in DOMAIN playlists :
     /\ playlists[p].owner = u
     /\ playlists[p].name = "Liked Songs"
     /\ playlists[p].isSystem}

\* C7: every registered user owns exactly one Liked Songs playlist marked
\* as a system playlist, whatever playlist requests have been handled since;
\* and a delete request aimed at such a playlist is rejected.
C7_LikedSongsKept ==
  /\ \A u \in DOMAIN accounts : Cardinality(LikedSongsOf(u)) = 1
  /\ (/\ resp.op = "deletePlaylist"
      /\ resp.target \in DOMAIN pre
      /\ pre[resp.target].isSystem)
       => (resp.status >= 400 /\ playlists = pre)

\* ========================================================================
\* Claims about subscription tiers
\* ========================================================================

\* The active tiers of artist a in the tier collection ts.
ActiveTiersOf(ts, a) == {t \in DOMAIN ts : ts[t].artist = a /\ ts[t].active}

\* C11: no artist ever has more than three active tiers; a create request
\* that finds three is answered with an error and stores nothing; a create
\* request with a valid body by a member that finds fewer than three adds
\* exactly one active tier; and a soft delete of an active tier takes exactly
\* that one away, so that it makes room for one more and no more.
C11_AtMostThreeActiveTiers ==
  /\ \A a \in ArtistIds : Cardinality(ActiveTiersOf(tiers, a)) <= 3
  /\ (resp.op = "createTier" /\ resp.target[1] \in ArtistIds) =>
       LET a == resp.target[1]
           n == Cardinality(ActiveTiersOf(pre, a))
       IN
       /\ n >= 3 => (resp.status >= 400 /\ tiers = pre)
       /\ (/\ n < 3
           /\ resp.caller \in ArtistMembers[a]
           /\ resp.target[2] = 500
           /\ resp.target[3] \in {NoOrder, 2})
            => /\ resp.status = 201
               /\ Cardinality(ActiveTiersOf(tiers, a)) = n + 1
  /\ (resp.op = "deleteTier" /\ resp.status = 200 /\ pre[resp.target].active) =>
       ActiveTiersOf(tiers, pre[resp.target].artist)
         = ActiveTiersOf(pre, pre[resp.target].artist) \ {resp.target}

\* C11 witness: a create was refused at three active tiers, one of which was
\* created in the room a soft delete had made.
C11_Witness ==
  /\ resp.op = "createTier"
  /\ resp.status = 400
  /\ resp.target[1] = "a1"
  /\ Cardinality(ActiveTiersOf(tiers, "a1")) = 3
  /\ Cardinality({t \in DOMAIN tiers : tiers[t].artist = "a1" /\ ~tiers[t].active}) >= 2

\* ========================================================================
\* Claims about accounts
\* ========================================================================

\* C12: a register request whose username or email equals that of a stored
\* user is answered 400 and leaves the users and the playlists as they were.
C12_DuplicateRegisterRejected ==
  (/\ resp.op = "register"
   /\ \E u \in DOMAIN pre.accounts :
        \/ pre.accounts[u].username = resp.target[1]
        \/ pre.accounts[u].email = resp.target[2])
    => /\ resp.status = 400
       /\ accounts = pre.accounts
       /\ playlists = pre.playlists

\* C12 witness: a register with a fresh username and the email of a stored
\* user was refused.
C12_Witness ==
  /\ resp.op = "register"
  /\ resp.status = 400
  /\ \E u \in DOMAIN pre.accounts :
       /\ pre.accounts[u].email = resp.target[2]
       /\ pre.accounts[u].username # resp.target[1]

\* C13: a login with the username or the email of a registered user and the
\* password that user registered with is answered 200 with a token naming
\* that user.
C13_LoginAfterRegister ==
  \A u \in DOMAIN accounts :
    (/\ resp.op = "login"
     /\ resp.target[1] \in {accounts[u].username, accounts[u].email}
     /\ accounts[u].password = Hash(Hash(resp.target[2])))
      => (resp.status = 200 /\ resp.msg[2] = u)

\* C20: whatever the stored users, a login that is not granted gets the very
\* response (status and message) the same request gets when its identifier
\* matches no user at all.
C20_NoUserEnumeration ==
  \A login \in LoginInputs, password \in Passwords \cup {NoPassword} :
    LET r == LoginResponse(accounts, login, password)
        none == LoginResponse(<<>>, login, password)
    IN r.status # 200 => (r.status = none.status /\ r.msg = none.msg)

\* ========================================================================
\* Claims about the tracks of a playlist
\* ========================================================================

\* C14: no playlist holds a track twice, and the owner's add request for a
\* track the playlist already holds is answered 400 and leaves the playlists
\* (track lists and total durations) as they were.
C14_NoDuplicateTracks ==
  /\ \A p \in DOMAIN playlists :
       \A i, j \in 1..Len(playlists[p].tracks) :
         i # j => playlists[p].tracks[i] # playlists[p].tracks[j]
  /\ (/\ resp.op = "addTrack"
      /\ resp.target[1] \in DOMAIN pre
      /\ pre[resp.target[1]].owner = resp.caller
      /\ \E i \in 1..Len(pre[resp.target[1]].tracks) :
           pre[resp.target[1]].tracks[i] = CastId(resp.target[2]))
       => (resp.status = 400 /\ playlists = pre)

\* C15: the owner's remove request for a track the playlist holds leaves the
\* playlist without that track and with a total duration lower by exactly
\* the duration of the track.
C15_RemoveSubtractsDuration ==
  (/\ resp.op = "removeTrack"
   /\ resp.target[1] \in DOMAIN pre
   /\ pre[resp.target[1]].owner = resp.caller
   /\ \E i \in 1..Len(pre[resp.target[1]].tracks) :
        pre[resp.target[1]].tracks[i] = CastId(resp.target[2]))
    => LET p == resp.target[1]
           t == CastId(resp.target[2])
       IN /\ \A i \in 1..Len(playlists[p].tracks) : playlists[p].tracks[i] # t
          /\ playlists[p].totalDuration = pre[p].totalDuration - catalog[t].duration

\* ========================================================================
\* Claims about playlists in folders
\* ========================================================================

\* C16: a folder delete that succeeds deletes no playlist; every playlist
\* whose folder was the deleted one now has the deleted folder's parent as
\* its folder (none if it had no parent) after a default delete, and no
\* folder after a delete with the orphan option.
C16_FolderDeleteKeepsPlaylists ==
  (resp.op = "deleteFolder" /\ resp.status = 200)
    => LET f == CastId(resp.target[1])
           target == IF resp.target[2] # "delete_contents"
                       THEN pre.folders[f].parentFolder ELSE NoFolder
       IN /\ DOMAIN playlists = DOMAIN pre.playlists
          /\ \A p \in DOMAIN pre.playlists :
               pre.playlists[p].folder = f => playlists[p].folder = target

\* C19: a playlist's folder pointer names folder F exactly when the
\* playlists list of F holds that playlist.
C19_PointerMatchesList ==
  \A f \in DOMAIN folders, p \in PlaylistIds :
    (p \in DOMAIN playlists /\ playlists[p].folder = f)
      <=> (\E i \in 1..Len(folders[f].playlists) : folders[f].playlists[i] = p)

\* ========================================================================
\* Claims about the catalogue
\* ========================================================================

\* C17: the tracks array of an album-detail response holds exactly the tracks
\* uploaded under that album, in ascending order of track number.
C17_AlbumDetailListsUploads ==
  (resp.op = "getAlbum" /\ resp.status = 200)
    => /\ {resp.msg[i] : i \in 1..Len(resp.msg)} =
            {t \in DOMAIN catalog : catalog[t].bodyAlbum = resp.target}
       /\ \A i, j \in 1..Len(resp.msg) :
            i < j => catalog[resp.msg[i]].trackNumber <= catalog[resp.msg[j]].trackNumber

\* C18: from one state to the next the stored play count of no track
\* decreases, also when play requests for the track overlap.
C18_PlayCountNeverDecreases ==
  [][\A t \in DOMAIN catalog : catalog'[t].plays >= catalog[t].plays]_vars

\* ========================================================================
\* Claims about Last.fm
\* ========================================================================

C22_ParentChangeAnswers ==
  resp.op = "updateFolder" => resp.status \in {200, 400, 403, 404, 500}

\* C22 witness: a parent change was answered although the chain of the
\* new parent ran into a cycle, and another although it ran into a folder
\* that is gone.
C22_Witness ==
  /\ resp.op = "updateFolder"
  /\ resp.msg = "Circular reference detected in existing folders"
  /\ \E f \in DOMAIN folders : folders[f].parentFolder = GoneFolder

\* A tier a subscription of artist a may take: stored, active, of artist a.
TierFound_Expected(t, a) ==
  t \in DOMAIN tiers /\ tiers[t].artist = a /\ tiers[t].active

\* C23: every stored subscription names a tier of its own artist; a
\* subscribe or change-tier request succeeds only with a tier that is active
\* and belongs to the subscription's artist; and a change-tier request that
\* is rejected leaves every subscription as it was.
C23_TierBelongsToArtist ==
  /\ \A i \in 1..Len(userSubs) :
       /\ userSubs[i].tier \in DOMAIN tiers
       /\ tiers[userSubs[i].tier].artist = userSubs[i].artist
  /\ (resp.op = "subscribe" /\ resp.status = 201)
       => TierFound_Expected(resp.target[2], resp.target[1])
  /\ (resp.op = "changeTier" /\ resp.status = 200)
       => TierFound_Expected(resp.target[2], pre[resp.target[1]].artist)
  /\ (resp.op = "changeTier" /\ resp.status # 200) => userSubs = pre

\* A change-tier request naming an active tier of another artist has just
\* been refused, while the caller holds a subscription to each artist.
C23_Witness ==
  /\ resp.op = "changeTier"
  /\ resp.status = 404
  /\ resp.target[1] \in 1..Len(pre)
  /\ pre[resp.target[1]].user = resp.caller
  /\ resp.target[2] \in DOMAIN tiers
  /\ tiers[resp.target[2]].active
  /\ tiers[resp.target[2]].artist # pre[resp.target[1]].artist
  /\ \E i \in 1..Len(userSubs) :
       userSubs[i].user = resp.caller /\ userSubs[i].artist = tiers[resp.target[2]].artist
\* C24: with the follow toggle run one request at a time, every playlist's
\* follower counter is at least zero and equals the number of users in its
\* followers list.
C24_FollowerCountMatchesList ==
  \A p \in DOMAIN playlists :
    /\ playlists[p].followerCount >= 0
    /\ playlists[p].followerCount = Len(playlists[p].followers)
    /\ playlists[p].followerCount =
         Cardinality({playlists[p].followers[i] : i \in 1..Len(playlists[p].followers)})

\* A user has just unfollowed a playlist that two users followed.
C24_Witness ==
  /\ resp.op = "followPlaylist"
  /\ resp.msg = "Playlist unfollowed"
  /\ Len(pre[resp.target].followers) = 2
  /\ playlists[resp.target].followerCount = 1
\* C25: a batch update naming a playlist that does not exist or that the
\* caller does not own is answered with an error status and leaves every
\* playlist and every folder as it was.
C25_ForeignBatchRejected ==
  (/\ resp.op = "batchUpdate"
   /\ \E i \in 1..Len(resp.target[1]) :
        LET p == CastId(resp.target[1][i]) IN
        p \notin DOMAIN pre.playlists \/ pre.playlists[p].owner # resp.caller)
    => /\ resp.status >= 400
       /\ playlists = pre.playlists
       /\ folders = pre.folders

\* A batch update that names one playlist of the caller and one of another
\* user, and a folder the caller owns, has just been refused.
C25_Witness ==
  /\ resp.op = "batchUpdate"
  /\ resp.status = 403
  /\ Len(resp.target[1]) = 2
  /\ \E i, j \in 1..2 :
       LET p == CastId(resp.target[1][i])
           q == CastId(resp.target[1][j])
       IN /\ p \in DOMAIN playlists /\ playlists[p].owner = resp.caller
          /\ q \in DOMAIN playlists /\ playlists[q].owner \notin {resp.caller, UnsavedUser}
  /\ Truthy(resp.target[4])
  /\ FolderExists(CastId(resp.target[4]))
  /\ folders[CastId(resp.target[4])].owner = resp.caller
\* C26: whenever no follow or unfollow request is under way, every artist's
\* follower counter equals the number of users whose following list holds
\* the artist; and the counter is never below zero.
C26_CounterMatchesAfterRaces ==
  /\ \A a \in ArtistIds : artistFollowers[a] >= 0
  /\ (\A r \in Requests : inflight[r].step = "idle")
       => \A a \in ArtistIds :
            artistFollowers[a] =
              Cardinality({u \in Users : Includes(following[u].artists, IdToString(a))})
\* C27: whenever no parent-change request is under way, no folder is its own
\* ancestor.
C27_CycleFreeAfterRaces ==
  (\A r \in Requests : inflight[r].step = "idle")
    => \A f \in DOMAIN folders : ~ReachesUp(folders, f, f, MaxFolders)
\* C28: no artist ever has more than three active tiers, also when
\* create-tier requests for the artist overlap.
C28_AtMostThreeActiveTiersUnderRaces ==
  \A a \in ArtistIds : Cardinality(ActiveTiersOf(tiers, a)) <= TierLimit
\* C29: a request sent with a token makes the handler take the user the
\* token was issued to as its caller, whether login or register issued the
\* token: a create-playlist request that names the playlist is answered 201
\* and the new playlist is owned by that user.
C29_LoginTokenIdentifiesCaller ==
  (resp.op = "tokenCreatePlaylist" /\ resp.target # NoName)
    => /\ resp.caller = pre.token[2]
       /\ resp.status = 201
       /\ \E p \in DOMAIN playlists \ DOMAIN pre.playlists :
            playlists[p].owner = pre.token[2]
====
